---- MODULE Spec2Model ----
(***************************************************************************)
(* A model of plsr, a command-line orchestrator that deploys one           *)
(* microservice.  These parts of the program are modelled:                 *)
(*                                                                         *)
(*   - the migration ledger        (src/plsr/db_migrate.py, migrate)       *)
(*   - the config extractor and the resolvers built on it                  *)
(*                                  (src/plsr/run_local.py, build.py,      *)
(*                                   helm_release.py)                      *)
(*   - docker run / docker stop, the DB image flow and the                 *)
(*     data-directory deletion gate (src/plsr/run_local.py, build.py)      *)
(*   - the parser of image references (src/src/plsr/aws/__init__.py)       *)
(*   - helm release and its cluster preflight                              *)
(*                                  (src/plsr/helm_release.py)             *)
(*                                                                         *)
(* Each part has its own specification (SpecMigrate, SpecConfig,           *)
(* SpecDocker and SpecDockerSeq, SpecParse, SpecHelm and SpecRelease;      *)
(* SpecLoops runs either of the two commands that retry); the variables    *)
(* of the other parts stay at their initial value in it.                   *)
(***************************************************************************)
EXTENDS Integers, Sequences, FiniteSets, TLC

VARIABLES
    \* ---- migration ledger (db_migrate.py) ----
    dbdir,      \* db/*.sql : file name -> content (NoFile when absent)
    ledger,     \* rows of schema_migrations: set of <<name, checksum>>
    dbCreated,  \* CREATE DATABASE / USER / GRANT has been executed
    tableCreated, \* CREATE TABLE IF NOT EXISTS schema_migrations has been executed
    mpc,        \* position of the running migrate() invocation
    attempt,    \* _wait_for_db: pings issued so far
    pinged,     \* _wait_for_db: a ping of this invocation was answered
    files,      \* migrate: the sorted list returned by _list_sql_files
    applied,    \* migrate: the dict returned by _already_applied
    idx,        \* migrate: index of the file the loop is at
    checksum,   \* migrate: checksum of the file being applied
    mrc,        \* exit code of the invocation
    \* history of the migration runs (not read by the program)
    evts,       \* what this invocation did, in order: <<kind, name, code>>
    ledger0,    \* ledger rows when this invocation started
    execCount,  \* name -> number of times its SQL ran with exit code 0
    runs,       \* invocations started
    edits,      \* files added or modified so far
    modified,   \* some file's content was changed after Init
    cleanRuns,  \* successful invocations in a row over the unchanged directory
    \* ---- config extractor and resolvers (run_local.py, build.py, helm_release.py) ----
    cfg,        \* config.yaml: the sequence of its lines, <<indent, key, value>>
    facts,      \* what docker run / docker stop / docker build read from cfg
    envName,    \* the environment name on the command line
    osenv,      \* os.environ: ECR, ECR_URL, AWS_ECR, AWS_ECR_URL ("" when unset)
    runOut,     \* what docker run resolved from cfg (NotRun before the command)
    buildOut,   \* what docker build resolved from cfg
    helmOut,    \* what helm release resolved from cfg
    \* ---- docker run / docker stop (run_local.py, build.py) ----
    containers, \* the docker daemon: container name -> what docker inspect shows
    fs,         \* the directories that exist on the host
    ecrTags,    \* the image references present in the registry
    plsrEnv,    \* os.environ["PLSR_ENV"] ("" when unset)
    dpc,        \* position of the running command
    drc,        \* its exit code
    denv,       \* auto_run: env_name
    dflags,     \* auto_run: the options of the command line
    dwants,     \* auto_run: wants_redeploy
    dinsp,      \* auto_run: insp_existing
    dcname,     \* auto_run: cname
    cmds,       \* commands started
    \* history of the data directories (not read by the program)
    deleted,    \* removed with rmtree: [path, env of the command]
    refused,    \* refused by _allowed_delete_host_dir: [path, env of the command]
    dlog,       \* what the running command did, in order
    dport,      \* how the running docker run settled its host port
    \* ---- parse_ecr_image_ref (aws/__init__.py) ----
    pref,       \* image_ref: the reference, as the sequence of its pieces
    pout,       \* what parse_ecr_image_ref returned (NotRun before the call)
    \* ---- helm release: cluster preflight (helm_release.py) ----
    himage,     \* image_ref of the release, as the sequence of its pieces
    hkubectl,   \* kubectl is on PATH
    htimeout,   \* os.environ["plsr_ECR_PULLCHECK_TIMEOUT"] ("" when unset)
    hpc,        \* position of the preflight
    hrc,        \* exit code returned by _preflight_ecr_for_k8s_pull
    hraised,    \* the preflight ended by an exception
    hsets,      \* extra helm arguments returned by the preflight
    hnow,       \* time.time(), in seconds since the verifier started
    hdeadline,  \* deadline of the poll loop
    hobs,       \* what the last status poll showed
    \* history of the preflight (not read by the program)
    hlog        \* the cluster calls issued, in order

mvars == <<dbdir, ledger, dbCreated, tableCreated, mpc, attempt, pinged, files, applied,
           idx, checksum, mrc, evts, ledger0, execCount, runs, edits, modified,
           cleanRuns>>

cvars == <<cfg, facts, envName, osenv, runOut, buildOut, helmOut>>

dvars == <<containers, fs, ecrTags, plsrEnv, dpc, drc, denv, dflags, dwants, dinsp,
           dcname, cmds, deleted, refused, dlog, dport>>

pvars == <<pref, pout>>

hvars == <<himage, hkubectl, htimeout, hpc, hrc, hraised, hsets, hnow, hdeadline,
           hobs, hlog>>

\* the variables of the remaining parts
rvars == <<pvars, hvars>>

vars == <<mvars, cvars, dvars, rvars>>

(***************************************************************************)
(* Bounds of the model.                                                    *)
(***************************************************************************)
MaxRuns == 2
MaxEdits == 2

(***************************************************************************)
(*                        MIGRATION LEDGER                                 *)
(***************************************************************************)

\* File names are modelled by the digits they start with: <<0,0,1>> is
\* 001_init.sql, <<0,0,2>> is 002_add_index.sql, <<1,0>> and <<2>> are files
\* whose prefix is not zero-padded (10_x.sql, 2_y.sql).
F001 == <<0, 0, 1>>
F002 == <<0, 0, 2>>
F10 == <<1, 0>>
F2 == <<2>>
FileNames == {F001, F002, F10, F2}

NoFile == "nofile"
Contents == {"v1", "v2"}

\* exit codes of the driven mysql client when a command fails
ToolFailCodes == {1, 2}

RcOk == 0
RcUsage == 2
RcNoTool == 127
RcNotReady == 1
RcRefused == 1
PingAttempts == 60

Min(a, b) == IF a < b THEN a ELSE b

\* Python's str ordering, as used by sorted(key=lambda x: x.name): the first
\* differing character decides, and a proper prefix sorts first.
NameLess(a, b) ==
    \E i \in 1..(Min(Len(a), Len(b)) + 1) :
        /\ \A j \in 1..(i - 1) : a[j] = b[j]
        /\ \/ i > Len(a) /\ i <= Len(b)
           \/ i <= Len(a) /\ i <= Len(b) /\ a[i] < b[i]

RECURSIVE SortByName(_)
SortByName(S) ==
    IF S = {} THEN <<>>
    ELSE LET m == CHOOSE x \in S : \A y \in S \ {x} : NameLess(x, y)
         IN  <<m>> \o SortByName(S \ {m})

\* A variant of _list_sql_files that sorts by the number the name starts with
RECURSIVE Number(_)
Number(a) == IF a = <<>> THEN 0 ELSE 10 * Number(SubSeq(a, 1, Len(a) - 1)) + a[Len(a)]

RECURSIVE SortByNumber(_)
SortByNumber(S) ==
    IF S = {} THEN <<>>
    ELSE LET m == CHOOSE x \in S : \A y \in S \ {x} :
                     \/ Number(x) < Number(y)
                     \/ Number(x) = Number(y) /\ NameLess(x, y)
         IN  <<m>> \o SortByNumber(S \ {m})

ListSqlFiles_Numeric(dir) ==
    SortByNumber({n \in FileNames : dir[n] # NoFile})

\* _list_sql_files: the *.sql files of db/, sorted by name
ListSqlFiles(dir) ==
    SortByName({n \in FileNames : dir[n] # NoFile})

\* _file_checksum: sha256 of the file's bytes (collision-free on Contents)
FileChecksum(content) == <<"sha256", content>>

\* dict lookups on the result of _already_applied (dict.get gives None)
None == <<"None">>
HasKey(d, name) == \E r \in d : r[1] = name
Get(d, name) ==
    IF HasKey(d, name) THEN (CHOOSE r \in d : r[1] = name)[2] ELSE None

\* _already_applied: the rows of the ledger; {} when the SELECT fails
AlreadyApplied(rows, code) == IF code # 0 THEN {} ELSE rows

\* _insert_ledger against the table: name is the PRIMARY KEY, so the INSERT
\* of a name that has a row fails whatever the client does.
InsertCodes(rows, name) ==
    IF HasKey(rows, name) THEN ToolFailCodes ELSE {0} \cup ToolFailCodes

Done(code) ==
    /\ mpc' = "done"
    /\ mrc' = code

\* migrate, lines 290-328: the checks made before the database is touched
Preconditions ==
    { <<"ok", RcOk>>, <<"no_env_name", RcUsage>>, <<"no_client", RcNoTool>>,
      <<"no_config", RcUsage>>, <<"no_url", RcUsage>>, <<"bad_url", RcUsage>> }

Invoke ==
    /\ mpc = "idle"
    /\ runs < MaxRuns
    /\ runs' = runs + 1
    /\ evts' = <<>>
    /\ ledger0' = ledger
    /\ attempt' = 0
    /\ pinged' = FALSE
    /\ files' = <<>>
    /\ applied' = {}
    /\ idx' = 1
    /\ \E pre \in Preconditions :
          IF pre[1] = "ok"
          THEN mpc' = "wait" /\ mrc' = RcOk
          ELSE Done(pre[2])
    /\ checksum' = None
    /\ UNCHANGED <<dbdir, ledger, dbCreated, tableCreated, execCount, edits,
                   modified, cleanRuns>>

\* A variant of _wait_for_db whose loop runs once more than attempts
WaitForDb_OneMore ==
    /\ mpc = "wait"
    /\ attempt <= PingAttempts
    /\ \E code \in {0} \cup ToolFailCodes :
          /\ pinged' = (code = 0)
          /\ IF code = 0 THEN mpc' = "ensure_db" /\ mrc' = mrc /\ attempt' = 0
             ELSE IF attempt = PingAttempts
                  THEN Done(RcNotReady) /\ attempt' = 0
                  ELSE mpc' = "wait" /\ mrc' = mrc /\ attempt' = attempt + 1
    /\ UNCHANGED <<dbdir, ledger, dbCreated, tableCreated, files, applied, idx,
                   checksum, evts, ledger0, execCount, runs, edits, modified,
                   cleanRuns>>

\* _wait_for_db: one iteration of the ping loop (the counter is the
\* function's own and is gone when it returns)
WaitForDb ==
    /\ mpc = "wait"
    /\ attempt < PingAttempts
    /\ \E code \in {0} \cup ToolFailCodes :
          /\ pinged' = (code = 0)
          /\ IF code = 0 THEN mpc' = "ensure_db" /\ mrc' = mrc /\ attempt' = 0
             ELSE IF attempt + 1 = PingAttempts
                  THEN Done(RcNotReady) /\ attempt' = 0
                  ELSE mpc' = "wait" /\ mrc' = mrc /\ attempt' = attempt + 1
    /\ UNCHANGED <<dbdir, ledger, dbCreated, tableCreated, files, applied, idx,
                   checksum, evts, ledger0, execCount, runs, edits, modified,
                   cleanRuns>>

\* _ensure_db_and_user
EnsureDbAndUser ==
    /\ mpc = "ensure_db"
    /\ \E code \in {0} \cup ToolFailCodes :
          IF code = 0
          THEN mpc' = "ensure_ledger" /\ mrc' = mrc /\ dbCreated' = TRUE
          ELSE Done(code) /\ dbCreated' = dbCreated
    /\ UNCHANGED <<dbdir, ledger, tableCreated, attempt, pinged, files, applied, idx,
                   checksum, evts, ledger0, execCount, runs, edits, modified,
                   cleanRuns>>

\* _ensure_ledger
EnsureLedger ==
    /\ mpc = "ensure_ledger"
    /\ \E code \in {0} \cup ToolFailCodes :
          IF code = 0
          THEN mpc' = "list" /\ mrc' = mrc /\ tableCreated' = TRUE
          ELSE Done(code) /\ tableCreated' = tableCreated
    /\ UNCHANGED <<dbdir, ledger, dbCreated, attempt, pinged, files, applied, idx,
                   checksum, evts, ledger0, execCount, runs, edits, modified,
                   cleanRuns>>

\* migrate, lines 344-354: list the files, then read the ledger
ListAndRead ==
    /\ mpc = "list"
    /\ files' = ListSqlFiles(dbdir)
    /\ IF files' = <<>>
       THEN Done(RcOk) /\ applied' = applied /\ evts' = evts
       ELSE \E code \in {0} \cup ToolFailCodes :
               /\ applied' = AlreadyApplied(ledger, code)
               /\ evts' = Append(evts, <<"read", <<>>, code>>)
               /\ mpc' = "loop"
               /\ mrc' = mrc
    /\ idx' = 1
    /\ UNCHANGED <<dbdir, ledger, dbCreated, tableCreated, attempt, pinged, checksum,
                   ledger0, execCount, runs, edits, modified, cleanRuns>>

\* How the loop body treats one file (migrate, lines 360-369)
Decide(app, name, cks) ==
    IF Get(app, name) = cks THEN "skip"
    ELSE IF HasKey(app, name) /\ Get(app, name) # cks THEN "refuse"
    ELSE "apply"

\* A variant of the refusal that reports the file and goes on with the loop
AfterRefusal_Continue == mpc' = mpc /\ mrc' = mrc /\ idx' = idx + 1

\* What follows the refusal of a modified file (migrate, lines 364-367)
AfterRefusal == Done(RcRefused) /\ idx' = idx

\* A variant that ignores the exit code of the execution and records the file
AfterExecFailure_Ignored(code) == mpc' = "insert" /\ mrc' = mrc /\ idx' = idx

\* What follows a failed execution of a file (migrate, lines 371-373)
AfterExecFailure(code) == Done(code) /\ idx' = idx

\* What follows a failed ledger insert (migrate, lines 376-378)
AfterInsertFailure(code) == Done(code) /\ idx' = idx

\* one iteration of `for path in files`, up to and including _exec_sql_file
LoopFile ==
    /\ mpc = "loop"
    /\ idx <= Len(files)
    /\ LET name == files[idx]
           cks == FileChecksum(dbdir[name])
       IN  /\ checksum' = cks
           /\ CASE Decide(applied, name, cks) = "skip" ->
                     /\ idx' = idx + 1
                     /\ mpc' = mpc /\ mrc' = mrc
                     /\ evts' = Append(evts, <<"skip", name, 0>>)
                     /\ execCount' = execCount
                [] Decide(applied, name, cks) = "refuse" ->
                     /\ AfterRefusal
                     /\ evts' = Append(evts, <<"refuse", name, RcRefused>>)
                     /\ execCount' = execCount
                [] OTHER ->
                     \E code \in {0} \cup ToolFailCodes :
                        /\ evts' = Append(evts, <<"exec", name, code>>)
                        /\ IF code # 0
                           THEN AfterExecFailure(code) /\ execCount' = execCount
                           ELSE /\ mpc' = "insert" /\ mrc' = mrc /\ idx' = idx
                                /\ execCount' =
                                     [execCount EXCEPT ![name] = @ + 1]
    /\ UNCHANGED <<dbdir, ledger, dbCreated, tableCreated, attempt, pinged, files,
                   applied, ledger0, runs, edits, modified, cleanRuns>>

\* the rest of the iteration: _insert_ledger
InsertLedger ==
    /\ mpc = "insert"
    /\ LET name == files[idx]
       IN  \E code \in InsertCodes(ledger, name) :
              /\ evts' = Append(evts, <<"insert", name, code>>)
              /\ IF code # 0
                 THEN AfterInsertFailure(code) /\ ledger' = ledger
                 ELSE /\ ledger' = ledger \cup {<<name, checksum>>}
                      /\ idx' = idx + 1
                      /\ mpc' = "loop" /\ mrc' = mrc
    /\ UNCHANGED <<dbdir, dbCreated, tableCreated, attempt, pinged, files, applied,
                   checksum, ledger0, execCount, runs, edits, modified,
                   cleanRuns>>

\* the loop is exhausted: "All migrations are up to date."
LoopEnd ==
    /\ mpc = "loop"
    /\ idx > Len(files)
    /\ Done(RcOk)
    /\ UNCHANGED <<dbdir, ledger, dbCreated, tableCreated, attempt, pinged, files,
                   applied, idx, checksum, evts, ledger0, execCount, runs,
                   edits, modified, cleanRuns>>

\* the invocation returns to the shell; its locals are gone
Return ==
    /\ mpc = "done"
    /\ mpc' = "idle"
    /\ cleanRuns' = IF mrc = RcOk THEN cleanRuns + 1 ELSE 0
    /\ attempt' = 0
    /\ pinged' = FALSE
    /\ files' = <<>>
    /\ applied' = {}
    /\ idx' = 1
    /\ checksum' = None
    /\ mrc' = RcOk
    /\ evts' = <<>>
    /\ ledger0' = {}
    /\ UNCHANGED <<dbdir, ledger, dbCreated, tableCreated, execCount, runs,
                   edits, modified>>

\* between invocations a developer adds a migration file ...
AddFile ==
    /\ mpc = "idle"
    /\ edits < MaxEdits
    /\ \E n \in FileNames, c \in Contents :
          /\ dbdir[n] = NoFile
          /\ dbdir' = [dbdir EXCEPT ![n] = c]
    /\ edits' = edits + 1
    /\ cleanRuns' = 0
    /\ UNCHANGED <<ledger, dbCreated, tableCreated, mpc, attempt, pinged, files, applied,
                   idx, checksum, mrc, evts, ledger0, execCount, runs, modified>>

\* ... or changes the content of one
ModifyFile ==
    /\ mpc = "idle"
    /\ edits < MaxEdits
    /\ \E n \in FileNames, c \in Contents :
          /\ dbdir[n] # NoFile
          /\ dbdir[n] # c
          /\ dbdir' = [dbdir EXCEPT ![n] = c]
    /\ edits' = edits + 1
    /\ modified' = TRUE
    /\ cleanRuns' = 0
    /\ UNCHANGED <<ledger, dbCreated, tableCreated, mpc, attempt, pinged, files, applied,
                   idx, checksum, mrc, evts, ledger0, execCount, runs>>

(***************************************************************************)
(*                 CONFIG EXTRACTOR AND RESOLVERS                          *)
(***************************************************************************)

\* config.yaml is read as text and searched with regular expressions.  The
\* model keeps the text as the sequence of its lines; a line is
\* <<indent, key, value>>, and a line that opens a block ("service:") has
\* the value "".  Values carry no quotes and no comments.
Ind(l) == l[1]
Key(l) == l[2]
Val(l) == l[3]

MaxLines == 5

\* a missing value (Python's None); every caller tests it for truth only
NoValue == "None"
NotRun == [done |-> FALSE]

TopReg == "111111111111.dkr.ecr.us-east-1.amazonaws.com"
DevRegRaw == "222222222222.dkr.ecr.eu-west-1.amazonaws.com/"
DevReg == "222222222222.dkr.ecr.eu-west-1.amazonaws.com"
ProdReg == "public.ecr.aws/acme"
EvilReg == "111111111111.dkr.ecr.us-east-1.amazonaws.com.attacker.net"
ImageRepo == "333333333333.dkr.ecr.us-east-1.amazonaws.com/billing"
RepoHost == "333333333333.dkr.ecr.us-east-1.amazonaws.com"
EnvReg == "registry.from.env"
EnvRegRaw == "registry.from.env/"
OtherEnvReg == "registry.from.aws-ecr"

Top == "<top>"
EnvNames == {"dev", "prod"}

\* The lines a config may hold, each with the blocks it may stand in.
T(ind, key, val, under) == [line |-> <<ind, key, val>>, under |-> under]
ConfigLines ==
    { T(0, "name", "billing", {Top}),
      T(0, "version", "1.2.0", {Top}),
      T(0, "ECR", TopReg, {Top}),
      T(0, "service", "", {Top}),
      T(0, "environments", "", {Top}),
      T(0, "default", "", {Top}),
      T(0, "image", "", {Top}),
      T(1, "flavor", "mysql", {"service", "default"}),
      T(1, "flavor", "MariaDB", {"service"}),
      T(1, "flavor", "postgres", {"service"}),
      T(1, "port", "3306", {"service"}),
      T(1, "name", "inner", {"service"}),
      T(1, "DATABASE_URL", "mysql://u:p@db:3306/app", {"default"}),
      T(1, "repository", ImageRepo, {"image"}),
      T(1, "dev", "", {"environments"}),
      T(1, "prod", "", {"environments"}),
      T(2, "ECR", DevRegRaw, {"dev"}),
      T(2, "ECR", ProdReg, {"prod"}),
      T(2, "port", "3307", {"dev", "prod"}) }

MaxOf(S) == CHOOSE x \in S : \A y \in S : y <= x
MinOf(S) == CHOOSE x \in S : \A y \in S : x <= y

\* index of the line that opens the block a line of indent ind would stand in
ParentIdx(t, ind) ==
    IF ind = 0 THEN 0 ELSE MaxOf({0} \cup {j \in DOMAIN t : Ind(t[j]) = ind - 1})

\* t followed by the line c is still the beginning of a well-formed config:
\* a block opener is followed by a deeper line, nothing else is; the line
\* stands in a block it belongs to; no key twice in one block.
OkNext(t, c) ==
    LET l == c.line
        pi == ParentIdx(t, Ind(l))
    IN  IF t = <<>> THEN Ind(l) = 0
        ELSE /\ IF Val(t[Len(t)]) = "" THEN Ind(l) = Ind(t[Len(t)]) + 1
                                       ELSE Ind(l) <= Ind(t[Len(t)])
             /\ (IF Ind(l) = 0 THEN Top ELSE Key(t[pi])) \in c.under
             /\ \A j \in (pi + 1)..Len(t) :
                    ~(Ind(t[j]) = Ind(l) /\ Key(t[j]) = Key(l))

RECURSIVE Prefixes(_)
Prefixes(n) ==
    IF n = 0 THEN {<<>>}
    ELSE LET P == Prefixes(n - 1)
         IN  P \cup {Append(t, c.line) : <<t, c>> \in
                        {x \in P \X ConfigLines : Len(x[1]) = n - 1 /\ OkNext(x[1], x[2])}}

\* the well-formed configs of at most MaxLines lines (the empty text is the
\* missing file: _read_config_text returns "")
Configs == {t \in Prefixes(MaxLines) : t = <<>> \/ Val(t[Len(t)]) # ""}

\* str.lower() on the keys and values of these configs
FoldCase(s) == IF s = "MariaDB" THEN "mariadb" ELSE IF s = "ECR" THEN "ecr" ELSE s

\* str.rstrip("/")
RstripSlash(v) ==
    IF v = DevRegRaw THEN DevReg ELSE IF v = EnvRegRaw THEN EnvReg ELSE v

\* int(str(p).strip()); 0 stands for None (callers test the result with `or`)
ParseInt(v) == IF v = "3306" THEN 3306 ELSE IF v = "3307" THEN 3307 ELSE 0

\* _extract_block: re.search of (?ms)^\s*section\s*:\s*\n(?P<blk>(?:[ \t].*\n)+)
\* The opener is matched at any indent, the line after it must start with a
\* blank, and with the s flag ".*" runs over line ends, so the group goes on
\* to the last line end of the text.
ExtractBlock(text, section) ==
    LET starts == {i \in 1..(Len(text) - 1) :
                      /\ Key(text[i]) = section
                      /\ Val(text[i]) = ""
                      /\ Ind(text[i + 1]) > 0}
    IN  IF starts = {} THEN <<>>
        ELSE SubSeq(text, MinOf(starts) + 1, Len(text))

\* _kv_from_block: re.search of (?mi)^\s*key\s*:\s*['"]?([^#\r\n'"]+)...$
\* The first line of the text whose key matches, at any indent, any case.
KvFromBlock(block, key) ==
    LET hits == {i \in DOMAIN block :
                    FoldCase(Key(block[i])) = FoldCase(key) /\ Val(block[i]) # ""}
    IN  IF hits = {} THEN NoValue ELSE Val(block[MinOf(hits)])

\* _kv_top: the same regular expression applied to the whole text
KvTop(text, key) == KvFromBlock(text, key)

\* build.py's own pattern for name and version: (?m), so the key's case counts
KvExact(text, key) ==
    LET hits == {i \in DOMAIN text : Key(text[i]) = key /\ Val(text[i]) # ""}
    IN  IF hits = {} THEN NoValue ELSE Val(text[MinOf(hits)])

ExtractEnvBlock(text, env) ==
    LET envs == ExtractBlock(text, "environments")
    IN  IF envs = <<>> THEN <<>> ELSE ExtractBlock(envs, env)

FlavorOf(fl) ==
    IF FoldCase(fl) \in {"mariadb", "mysql", "db-mariadb", "db_mysql"}
    THEN "db-mariadb" ELSE "python-app"

\* run_local._detect_flavor, build._read_fields_from_config_yaml (lines 73-75)
\* and helm_release._flavor are the same three statements
DetectFlavor(text) ==
    LET fl == KvFromBlock(ExtractBlock(text, "service"), "flavor")
    IN  FlavorOf(IF fl = NoValue THEN "" ELSE fl)

\* the first match of the private / public registry-host pattern in a value
PrivHostIn(v) ==
    CASE v \in {TopReg, EvilReg} -> TopReg
      [] v \in {DevRegRaw, DevReg} -> DevReg
      [] v \in {ImageRepo, RepoHost} -> RepoHost
      [] OTHER -> NoValue
PubHostIn(v) == IF v = ProdReg THEN ProdReg ELSE NoValue

ScanPriv(text) ==
    LET hits == {i \in DOMAIN text : PrivHostIn(Val(text[i])) # NoValue}
    IN  IF hits = {} THEN NoValue ELSE PrivHostIn(Val(text[MinOf(hits)]))
ScanPub(text) ==
    LET hits == {i \in DOMAIN text : PubHostIn(Val(text[i])) # NoValue}
    IN  IF hits = {} THEN NoValue ELSE PubHostIn(Val(text[MinOf(hits)]))
ScanHosts(text) ==
    IF ScanPriv(text) # NoValue THEN ScanPriv(text) ELSE ScanPub(text)

\* ---- registry root ----

EcrEnvVars == <<"ECR", "ECR_URL", "AWS_ECR", "AWS_ECR_URL">>
NoEnv == [v \in {"ECR", "ECR_URL", "AWS_ECR", "AWS_ECR_URL"} |-> ""]
Environs ==
    { NoEnv,
      [NoEnv EXCEPT !["ECR_URL"] = EnvRegRaw, !["AWS_ECR"] = OtherEnvReg],
      [NoEnv EXCEPT !["AWS_ECR_URL"] = OtherEnvReg],
      [NoEnv EXCEPT !["ECR"] = DevRegRaw] }

\* os.getenv("ECR") or os.getenv("ECR_URL") or ... : the first one that is set
FirstEnv(env) ==
    LET set == {i \in DOMAIN EcrEnvVars : env[EcrEnvVars[i]] # ""}
    IN  IF set = {} THEN NoValue ELSE env[EcrEnvVars[MinOf(set)]]

\* run_local._discover_ecr_root
DiscoverEcrRoot(text, env) ==
    LET ecr_env == KvFromBlock(ExtractEnvBlock(text, env), "ECR")
        ecr_top == KvTop(text, "ECR")
    IN  IF ecr_env # NoValue THEN RstripSlash(ecr_env)
        ELSE IF ecr_top # NoValue THEN RstripSlash(ecr_top)
        ELSE ScanHosts(text)

\* build._read_fields_from_config_yaml: (name, version, ecr_root, flavor).
\* Its ECR pattern is (?mi)^\s*ECR\s*:..., the first ECR line of the text.
ReadFieldsFromConfigYaml(text, env) ==
    IF text = <<>>
    THEN [name |-> NoValue, ver |-> NoValue, ecr |-> NoValue, flavor |-> "python-app"]
    ELSE LET m_ecr == KvFromBlock(text, "ECR")
         IN  [name |-> KvExact(text, "name"),
              ver |-> KvExact(text, "version"),
              flavor |-> DetectFlavor(text),
              ecr |-> IF m_ecr # NoValue THEN RstripSlash(m_ecr)
                      ELSE IF FirstEnv(env) # NoValue THEN RstripSlash(FirstEnv(env))
                      ELSE ScanHosts(text)]

\* helm_release._ecr_root: environment, then the first ECR line, then a scan
EcrRoot(text, env) ==
    IF FirstEnv(env) # NoValue THEN RstripSlash(FirstEnv(env))
    ELSE IF KvFromBlock(text, "ECR") # NoValue THEN RstripSlash(KvFromBlock(text, "ECR"))
    ELSE ScanHosts(text)

\* helm_release._image_repository (no dotted image.repository key in these configs)
ImageRepository(text) == KvFromBlock(ExtractBlock(text, "image"), "repository")

\* the directory name of the service root, used when the config has no name
RootName == "svc-dir"
OrElse(v, w) == IF v # NoValue THEN v ELSE w

\* run_local._env_port
EnvPort(text, env) ==
    LET blk == ExtractEnvBlock(text, env)
        p == KvFromBlock(blk, "port")
    IN  IF blk = <<>> \/ p = NoValue THEN 0 ELSE ParseInt(p)

(***************************************************************************)
(*                 IMAGE REFERENCES: parse_ecr_image_ref                   *)
(***************************************************************************)

MaxHostLen == 5

\* A reference is the sequence of its pieces: the separators "/", ":", "@"
\* and pieces that hold none of them.
Acct12 == "111111111111"
DkrEcr == ".dkr.ecr."
Region == "us-east-1"
Amazonaws == ".amazonaws.com"
PublicHost == "public.ecr.aws"
Suffix == ".attacker.net"
HostPieces == {Acct12, DkrEcr, Region, Amazonaws, PublicHost, Suffix}
\* the pieces that are 12 digits, and the pieces made of [a-z0-9-] only
AcctPieces == {Acct12, "222222222222", "333333333333"}
RegionPieces == {Region, "eu-west-1"} \cup AcctPieces

RECURSIVE SeqsUpTo(_, _)
SeqsUpTo(S, n) ==
    IF n = 0 THEN {<<>>}
    ELSE LET P == SeqsUpTo(S, n - 1)
         IN  P \cup {Append(t, x) : t \in {q \in P : Len(q) = n - 1}, x \in S}

Hosts == SeqsUpTo(HostPieces, MaxHostLen)
Paths ==
    { <<>>,
      <<"/", "billing">>,
      <<"/", "billing", ":", "1.2.0">>,
      <<"/", "acme", "/", "billing", ":", "1.2.0">>,
      <<"/", "billing", ":", "rc", ":", "1.2.0">>,
      <<"/", "billing", "@", "sha256", ":", "abc">>,
      <<"/", "billing", ":", "1.2.0", "@", "sha256", ":", "abc">>,
      <<"@", "sha256", ":", "abc">> }

Has(str, sep) == \E i \in DOMAIN str : str[i] = sep
FirstAt(str, sep) == MinOf({i \in DOMAIN str : str[i] = sep})
LastAt(str, sep) == MaxOf({i \in DOMAIN str : str[i] = sep})
\* str.split(sep, 1) and str.rsplit(sep, 1) when sep occurs in str
SplitBefore(str, sep) == SubSeq(str, 1, FirstAt(str, sep) - 1)
SplitAfter(str, sep) == SubSeq(str, FirstAt(str, sep) + 1, Len(str))
RSplitBefore(str, sep) == SubSeq(str, 1, LastAt(str, sep) - 1)
RSplitAfter(str, sep) == SubSeq(str, LastAt(str, sep) + 1, Len(str))

\* _PRIV_ECR_HOST.match(host): \d{12}\.dkr\.ecr\.[a-z0-9-]+\.amazonaws\.com
\* matched from the start of host; the end of the match is where the first
\* .amazonaws.com after the region ends.  0 when there is no match.
PrivMatchEnd(host) ==
    LET ends == {k \in 4..Len(host) :
                    /\ host[1] \in AcctPieces
                    /\ host[2] = DkrEcr
                    /\ \A j \in 3..(k - 1) : host[j] \in RegionPieces
                    /\ host[k] = Amazonaws}
    IN  IF ends = {} THEN 0 ELSE MinOf(ends)

\* _PUB_ECR_HOST.search(host): (?:^|/)(public\.ecr\.aws)(?:/|$) on a host,
\* which holds no "/"
PubMatch(host) == host = <<PublicHost>>

NoParse == [found |-> FALSE]

ParseEcrImageRef(image_ref) ==
    LET ref == IF ~Has(image_ref, "@") THEN image_ref
               ELSE IF Has(image_ref, "/")
                    THEN LET rest0 == SplitAfter(image_ref, "/")
                             repo_part == IF Has(rest0, "@") THEN SplitBefore(rest0, "@")
                                          ELSE rest0
                         IN  SplitBefore(image_ref, "/") \o <<"/">> \o repo_part
                    ELSE SplitBefore(image_ref, "@")
    IN  IF ~Has(ref, "/") THEN NoParse
        ELSE LET host == SplitBefore(ref, "/")
                 rest == SplitAfter(ref, "/")
                 repository == IF Has(rest, ":") THEN RSplitBefore(rest, ":") ELSE rest
                 tag == IF Has(rest, ":") THEN RSplitAfter(rest, ":") ELSE <<"latest">>
                 m == PrivMatchEnd(host)
             IN  IF m # 0
                 THEN [found |-> TRUE, host |-> host, region |-> SubSeq(host, 3, m - 1),
                       account |-> <<host[1]>>, repository |-> repository, tag |-> tag,
                       private |-> TRUE]
                 ELSE IF PubMatch(host)
                 THEN [found |-> TRUE, host |-> host, region |-> <<>>, account |-> <<>>,
                       repository |-> repository, tag |-> tag, private |-> FALSE]
                 ELSE NoParse

\* the registry roots of the configs, piece by piece
PiecesOf(root) ==
    CASE root = TopReg -> <<Acct12, DkrEcr, Region, Amazonaws>>
      [] root = EvilReg -> <<Acct12, DkrEcr, Region, Amazonaws, Suffix>>
      [] root = DevReg -> <<"222222222222", DkrEcr, "eu-west-1", Amazonaws>>
      [] root = RepoHost -> <<"333333333333", DkrEcr, Region, Amazonaws>>
      [] root = ImageRepo -> <<"333333333333", DkrEcr, Region, Amazonaws, "/", "billing">>
      [] root = ProdReg -> <<PublicHost, "/", "acme">>
      [] OTHER -> <<root>>

\* build._compose_image_ref: f"{ecr.rstrip('/')}/{name}:{version}", kept as
\* the sequence of its parts
ComposeImageRef(name, version, ecr) == <<RstripSlash(ecr), name, version>>

\* run_local._compose_image: the registry root, else image.local_fallback,
\* else the bare name:version
ComposeImage(text, name, version, env) ==
    LET ecr == DiscoverEcrRoot(text, env)
        local_fb == KvFromBlock(ExtractBlock(text, "image"), "local_fallback")
    IN  IF ecr # NoValue THEN <<RstripSlash(ecr), name, version>>
        ELSE IF local_fb # NoValue THEN <<local_fb>>
        ELSE <<name, version>>

\* parse_ecr_image_ref on a composed reference root/name:version
ParsedRef(ref) == ParseEcrImageRef(PiecesOf(ref[1]) \o <<"/", ref[2], ":", ref[3]>>)
IsPrivateRef(ref) == ParsedRef(ref).found /\ ParsedRef(ref).private

\* The reference ensure_db_image_in_ecr logs in for, looks up, builds and
\* pushes: none unless the service is a DB with name, version and a private
\* registry root.
NoRef == <<>>
EnsuredRef(text, env) ==
    LET f == ReadFieldsFromConfigYaml(text, env)
    IN  IF f.name = NoValue \/ f.ver = NoValue \/ f.flavor # "db-mariadb" \/ f.ecr = NoValue
        THEN NoRef
        ELSE IF IsPrivateRef(ComposeImageRef(f.name, f.ver, f.ecr))
             THEN ComposeImageRef(f.name, f.ver, f.ecr)
             ELSE NoRef

\* docker run: what auto_run resolves from the config before it touches docker
ResolveForRun ==
    /\ runOut = NotRun
    /\ runOut' = [done |-> TRUE,
                  name |-> OrElse(KvTop(cfg, "name"), RootName),
                  version |-> OrElse(KvTop(cfg, "version"), "0.0.0"),
                  flavor |-> DetectFlavor(cfg),
                  svc |-> ExtractBlock(cfg, "service"),
                  svcFlavor |-> KvFromBlock(ExtractBlock(cfg, "service"), "flavor"),
                  env |-> ExtractEnvBlock(cfg, envName),
                  envEcr |-> KvFromBlock(ExtractEnvBlock(cfg, envName), "ECR"),
                  port |-> EnvPort(cfg, envName),
                  ecr |-> DiscoverEcrRoot(cfg, envName),
                  ensured |-> EnsuredRef(cfg, osenv),
                  image |-> ComposeImage(cfg, OrElse(KvTop(cfg, "name"), RootName),
                                         OrElse(KvTop(cfg, "version"), "0.0.0"), envName)]
    /\ UNCHANGED <<cfg, facts, envName, osenv, buildOut, helmOut>>

\* build.print_image_tag_from_config: the line printed and the exit code
PrintImageTagFromConfig(text, env) ==
    LET f == ReadFieldsFromConfigYaml(text, env)
    IN  IF f.name = NoValue \/ f.ver = NoValue \/ f.ecr = NoValue
        THEN [out |-> NoRef, rc |-> RcUsage]
        ELSE [out |-> ComposeImageRef(f.name, f.ver, f.ecr), rc |-> RcOk]

\* How far a command gets on the config alone: whether it goes on to start
\* external commands (docker, aws, kubectl, helm), and the exit code it
\* returns when it does not.
Stops(code) == [starts |-> FALSE, rc |-> code]
GoesOn == [starts |-> TRUE, rc |-> RcOk]

\* ensure_db_image_in_ecr, lines 323-343
EnsureGate(text, env) ==
    LET f == ReadFieldsFromConfigYaml(text, env)
    IN  IF f.name = NoValue \/ f.ver = NoValue THEN Stops(RcUsage)
        ELSE IF f.flavor # "db-mariadb" THEN Stops(RcOk)
        ELSE IF f.ecr = NoValue THEN Stops(RcUsage)
        ELSE IF ~IsPrivateRef(ComposeImageRef(f.name, f.ver, f.ecr)) THEN Stops(RcOk)
        ELSE GoesOn

\* docker_build_from_config, lines 433-446
DockerBuildGate(text, env) ==
    LET f == ReadFieldsFromConfigYaml(text, env)
    IN  IF f.name = NoValue \/ f.ver = NoValue THEN Stops(RcUsage)
        ELSE IF f.flavor = "db-mariadb" THEN EnsureGate(text, env)
        ELSE IF f.ecr = NoValue THEN Stops(RcUsage)
        ELSE GoesOn

\* helm_release.release from the config to the first kubectl command
\* (lines 418-447), the chart directory being there
ReleaseGate(text, env) ==
    IF text = <<>> THEN Stops(RcUsage)
    ELSE IF ImageRepository(text) = NoValue /\ EcrRoot(text, env) = NoValue
    THEN Stops(RcUsage)
    ELSE GoesOn

\* docker build / print-tag: what docker_build_from_config reads, and what
\* print-tag prints
ResolveForBuild ==
    /\ buildOut = NotRun
    /\ buildOut' = [done |-> TRUE, fields |-> ReadFieldsFromConfigYaml(cfg, osenv),
                    printed |-> PrintImageTagFromConfig(cfg, osenv),
                    build |-> DockerBuildGate(cfg, osenv),
                    ensure |-> EnsureGate(cfg, osenv)]
    /\ UNCHANGED <<cfg, facts, envName, osenv, runOut, helmOut>>

\* helm release: release() stops with 2 on an empty config; the registry root
\* is resolved only when the config declares no image.repository
ResolveForHelm ==
    /\ helmOut = NotRun
    /\ cfg # <<>>
    /\ helmOut' = [done |-> TRUE,
                   name |-> OrElse(KvTop(cfg, "name"), RootName),
                   version |-> OrElse(KvTop(cfg, "version"), "0.0.0"),
                   flavor |-> DetectFlavor(cfg),
                   repo |-> ImageRepository(cfg),
                   ecr |-> IF ImageRepository(cfg) # NoValue THEN NoValue
                           ELSE EcrRoot(cfg, osenv),
                   release |-> ReleaseGate(cfg, osenv)]
    /\ UNCHANGED <<cfg, facts, envName, osenv, runOut, buildOut>>

(***************************************************************************)
(*              DOCKER RUN / DOCKER STOP AND THE DATA DIRECTORY            *)
(***************************************************************************)

MaxCmds == 1
\* commands in a row on a host that starts without containers
MaxSeqCmds == 2

\* A path is the sequence of its components below "/".  The text of a path
\* (a config value, a command-line argument) is parsed by RawPath, which
\* keeps "~" and ".." as components; expanduser() and resolve() remove them.
Home == <<"home", "u">>
AppRoot == <<"work", "svc">>

CliDataDir == "~/dbdata"
DevDataDir == "/data/tmp/../dev"
ProdDataDir == "/srv/prod-data"
MysqlDir == "/var/lib/mysql"

RawPath(s) ==
    CASE s = CliDataDir -> <<"~", "dbdata">>
      [] s = DevDataDir -> <<"data", "tmp", "..", "dev">>
      [] s = ProdDataDir -> <<"srv", "prod-data">>
      [] OTHER -> <<s>>

Expanduser(p) == IF p # <<>> /\ Head(p) = "~" THEN Home \o Tail(p) ELSE p

RECURSIVE ResolveFrom(_, _)
ResolveFrom(stack, p) ==
    IF p = <<>> THEN stack
    ELSE IF Head(p) = ".."
         THEN ResolveFrom(IF stack = <<>> THEN <<>> ELSE SubSeq(stack, 1, Len(stack) - 1),
                          Tail(p))
         ELSE ResolveFrom(Append(stack, Head(p)), Tail(p))

\* Path.resolve() on a file system without symbolic links
Resolve(p) == ResolveFrom(<<>>, p)

\* Path(raw.strip()).expanduser().resolve()
PathOf(s) == Resolve(Expanduser(RawPath(s)))

\* PurePath.is_relative_to: base is a prefix of p, component by component
IsRelativeTo(p, base) == Len(base) <= Len(p) /\ SubSeq(p, 1, Len(base)) = base

\* shutil.rmtree(p) and Path.mkdir(parents=True, exist_ok=True) on the set of
\* existing directories
Rmtree(dirs, p) == {q \in dirs : ~IsRelativeTo(q, p)}
EnsureDir(dirs, p) == dirs \cup {SubSeq(p, 1, k) : k \in 1..Len(p)}

\* run_local._default_local_db_dir
DefaultLocalDbDir == Home \o <<"dev", "plsr", "local", "db">>

\* run_local._host_data_dir_from_config
HostDataDirFromConfig(text, env) ==
    LET blk == ExtractEnvBlock(text, env)
        raw == KvFromBlock(blk, "data_dir")
    IN  IF blk = <<>> \/ raw = NoValue THEN None ELSE PathOf(raw)

\* run_local._data_dir_container
DataDirContainer(text) ==
    OrElse(KvFromBlock(ExtractBlock(text, "service"), "data_dir"), MysqlDir)

\* A container as docker inspect shows it: its state, and the source and the
\* destination of its bind mount (None when it has none).
Absent == [state |-> "absent", src |-> None, dest |-> ""]

\* run_local._db_mount_host_dir_from_inspect
DbMountHostDirFromInspect(obj, container_data_path) ==
    IF obj.state # "absent" /\ obj.src # None /\ obj.dest = container_data_path
    THEN Resolve(Expanduser(obj.src))
    ELSE None

\* run_local._allowed_delete_host_dir
AllowedDeleteHostDir(host_dir, root, text, env) ==
    LET cfg_path == HostDataDirFromConfig(text, env)
        bases == {Resolve(DefaultLocalDbDir), Resolve(root \o <<".plsr", "data", "mariadb">>)}
                     \cup (IF cfg_path # None THEN {Resolve(cfg_path)} ELSE {})
        hd == Resolve(host_dir)
    IN  \/ \E base \in bases : hd = base \/ IsRelativeTo(hd, base)
        \/ IsRelativeTo(hd, Resolve(Home \o <<"dev", "plsr">>))

\* re.sub(r"[^a-zA-Z0-9_.-]+", "-", n)[:63] on a name given by its parts
\* (the parts are joined with "-")
SanitizePart(s) == IF s = "web 1" THEN "web-1" ELSE s
SanitizeName(n) == [i \in DOMAIN n |-> SanitizePart(n[i])]

\* run_local._db_container_name: dev.compose.container_name, else the name
DbContainerName(text, service_name) ==
    LET dev_blk == ExtractBlock(text, "dev")
        comp_blk == IF dev_blk = <<>> THEN <<>> ELSE ExtractBlock(dev_blk, "compose")
        cname == IF comp_blk = <<>> THEN NoValue ELSE KvFromBlock(comp_blk, "container_name")
    IN  SanitizeName(<<OrElse(cname, service_name)>>)

\* no --name on the command line
NoName == <<>>

\* ---- the configs, containers and directories docker run / stop meet ----

DockerTemplates(fl, ecr, dd, pd) ==
    <<T(0, "name", "billing", {Top}),
      T(0, "version", "1.2.0", {Top}),
      T(0, "ECR", ecr, {Top}),
      T(0, "service", "", {Top}),
      T(1, "flavor", fl, {"service"}),
      T(0, "environments", "", {Top}),
      T(1, "dev", "", {"environments"}),
      T(2, "port", "3307", {"dev", "prod"})>>
    \o (IF dd # "" THEN <<T(2, "data_dir", dd, {"dev", "prod"})>> ELSE <<>>)
    \o <<T(1, "prod", "", {"environments"}),
         T(2, "ECR", ProdReg, {"prod"})>>
    \o (IF pd # "" THEN <<T(2, "data_dir", pd, {"dev", "prod"})>> ELSE <<>>)

\* the same well-formedness as Configs
IsConfig(ts) ==
    /\ \A i \in DOMAIN ts : OkNext([j \in 1..(i - 1) |-> ts[j].line], ts[i])
    /\ ts[Len(ts)].line[3] # ""

DockerConfigs ==
    {[i \in DOMAIN ts |-> ts[i].line] :
        ts \in {x \in {DockerTemplates(fl, TopReg, dd, pd) :
                          fl \in {"mysql", "postgres"},
                          dd \in {"", DevDataDir},
                          pd \in {"", ProdDataDir}}
                       \cup {DockerTemplates("mysql", EvilReg, "", "")} : IsConfig(x)}}

LocalEnv == "local"
AllEnvs == EnvNames \cup {LocalEnv}

CNames ==
    {<<"billing">>, <<"web-1">>} \cup {<<"billing", e>> : e \in EnvNames \cup {LocalEnv}}

DataDirs ==
    {DefaultLocalDbDir, PathOf(DevDataDir), PathOf(ProdDataDir),
     <<"data", "dev", "sub">>, <<"srv", "old">>}

RECURSIVE EnsureDirs(_, _)
EnsureDirs(dirs, S) ==
    IF S = {} THEN dirs
    ELSE LET p == CHOOSE x \in S : TRUE IN EnsureDirs(EnsureDir(dirs, p), S \ {p})

\* the directories a command may meet as a data directory
HostDirs == DataDirs \cup {PathOf(CliDataDir)}

\* run_local._guess_ports: (container_port, host_port)
GuessPorts(text, flavor, env) ==
    IF flavor = "db-mariadb"
    THEN LET env_p == EnvPort(text, env)
             p == ParseInt(KvFromBlock(ExtractBlock(text, "service"), "port"))
         IN  [container |-> 3306,
              host |-> IF env_p # 0 THEN env_p ELSE IF p # 0 THEN p ELSE 3306]
    ELSE LET p == ParseInt(KvFromBlock(ExtractBlock(text, "default"), "APP_PORT"))
             cport == IF p # 0 THEN p ELSE 8000
             env_p == EnvPort(text, env)
         IN  [container |-> cport, host |-> IF env_p # 0 THEN env_p ELSE cport]

\* What the commands derive from the config text.  No command changes the
\* text, so the derivation is done once, when the text is chosen, and kept
\* in facts.
Derive(text) ==
    [flavor |-> DetectFlavor(text),
     name |-> OrElse(KvTop(text, "name"), RootName),
     db_cname |-> DbContainerName(text, OrElse(KvTop(text, "name"), RootName)),
     build_db_cname |-> DbContainerName(text, ReadFieldsFromConfigYaml(text, NoEnv).name),
     data_cont |-> DataDirContainer(text),
     fields |-> ReadFieldsFromConfigYaml(text, NoEnv),
     ensured |-> EnsuredRef(text, NoEnv),
     host_port |-> [e \in AllEnvs |-> GuessPorts(text, DetectFlavor(text), e).host],
     host_dir |-> [e \in AllEnvs |-> HostDataDirFromConfig(text, e)],
     allowed |-> [e \in AllEnvs |->
                     {p \in HostDirs : AllowedDeleteHostDir(p, AppRoot, text, e)}]]
NoFacts == <<>>

\* _allowed_delete_host_dir(host_dir, root, cfg, env_name), read from facts
Allowed(host_dir, env) ==
    IF host_dir \in HostDirs THEN host_dir \in facts.allowed[env]
    ELSE AllowedDeleteHostDir(host_dir, AppRoot, cfg, env)

\* the name carrying the environment for every flavor
ContainerName_PerEnv(d, env, name_override) ==
    SanitizeName(IF name_override # NoName THEN name_override ELSE <<d.name, env>>)
\* the container name docker run and docker stop work on
ContainerName(d, env, name_override) ==
    IF d.flavor = "db-mariadb" THEN d.db_cname
    ELSE SanitizeName(IF name_override # NoName THEN name_override ELSE <<d.name, env>>)

\* the containers a host may hold before the first command: none, or a DB
\* container started by hand on a directory of its own
InitDbContainers ==
    {Absent} \cup [state : {"running"}, src : {<<"srv", "old">>}, dest : {MysqlDir}]
InitLegacyContainers == {Absent, [state |-> "exited", src |-> None, dest |-> ""]}

\* exit codes of docker when a command fails
DockerFail == 1
RcDockerMissing == 1
RcDelFailed == 1
RcPortBusy == 1

\* outcomes of the tools one docker stop drives
StopOutcomes == [stop : {0, DockerFail}, rm : {0, DockerFail}, rmtree : BOOLEAN]

\* rc = rc or step
OrRc(rc, step) == IF rc # 0 THEN rc ELSE step

\* auto_stop on the state st = [cont, fs, del, ref, rc]: the containers, the
\* directories, the paths removed and refused so far, and the exit code.
StopEffect(st, env, name_override, keep_data, dry_run, o) ==
    LET d == facts
        isDb == d.flavor = "db-mariadb"
        cname == ContainerName(d, env, name_override)
        insp == st.cont[cname]
        exists == insp.state # "absent"
        mnt == DbMountHostDirFromInspect(insp, d.data_cont)
        cfgDir == d.host_dir[env]
        host_dir == IF isDb /\ ~keep_data
                    THEN (IF mnt # None THEN mnt
                          ELSE IF cfgDir # None THEN cfgDir ELSE DefaultLocalDbDir)
                    ELSE None
        stopRc == IF insp.state = "running" THEN o.stop ELSE 0
        afterStop == IF insp.state = "running" /\ o.stop = 0 THEN "exited" ELSE insp.state
        \* docker rm without -f fails on a container that is still running
        rmRc == IF ~exists THEN 0 ELSE IF afterStop = "running" THEN DockerFail ELSE o.rm
        cont1 == IF ~exists THEN st.cont
                 ELSE [st.cont EXCEPT ![cname] =
                          IF rmRc = 0 THEN Absent ELSE [insp EXCEPT !.state = afterStop]]
        rc1 == OrRc(stopRc, rmRc)
        hd == Resolve(Expanduser(host_dir))
        st1 == [st EXCEPT !.cont = cont1, !.rc = rc1]
    IN  IF dry_run THEN [st EXCEPT !.rc = 0]
        ELSE IF host_dir = None \/ hd \notin st.fs THEN st1
        ELSE IF ~Allowed(hd, env)
             THEN [st1 EXCEPT !.ref = @ \cup {[path |-> hd, env |-> env]}]
        ELSE IF o.rmtree
             THEN [st1 EXCEPT !.fs = Rmtree(@, hd),
                              !.del = @ \cup {[path |-> hd, env |-> env]}]
        ELSE [st1 EXCEPT !.rc = OrRc(rc1, RcDelFailed)]

DockerState == [cont |-> containers, fs |-> fs, del |-> deleted, ref |-> refused, rc |-> 0]

SetDockerState(st) ==
    /\ containers' = st.cont
    /\ fs' = st.fs
    /\ deleted' = st.del
    /\ refused' = st.ref

DDone(code) == dpc' = "done" /\ drc' = code

NameOverrides == {NoName, <<"web 1">>}

NoFlags == [data_host_dir |-> NoValue, dry_run |-> FALSE]

\* docker stop <env> [--name N] [--keep-data] [--dry-run]: auto_stop
StopUpTo(budget) ==
    /\ dpc = "idle"
    /\ cmds < budget
    /\ cmds' = cmds + 1
    /\ \/ \E env \in EnvNames \cup {""}, docker \in BOOLEAN :
             /\ env = "" \/ ~docker
             /\ DDone(IF env = "" THEN RcUsage ELSE RcDockerMissing)
             /\ dlog' = IF env = "" THEN dlog ELSE Append(dlog, <<"no_docker">>)
             /\ UNCHANGED <<containers, fs, deleted, refused, dflags>>
       \/ \E env \in EnvNames, keep \in BOOLEAN, dry \in BOOLEAN,
             nov \in NameOverrides, o \in StopOutcomes :
             LET st == StopEffect(DockerState, env, nov, keep, dry, o)
             IN  /\ SetDockerState(st)
                 /\ DDone(st.rc)
                 /\ dlog' = dlog
                 /\ dflags' = [data_host_dir |-> NoValue, dry_run |-> dry]
    /\ UNCHANGED <<ecrTags, plsrEnv, denv, dwants, dinsp, dcname, dport>>

\* docker run <env> ...: auto_run up to the decision to redeploy.  Removes a
\* legacy <name>-<env> container of a DB service, inspects the container and
\* asks before it replaces a running one.
RunBeginUpTo(budget) ==
    /\ dpc = "idle"
    /\ cmds < budget
    /\ cmds' = cmds + 1
    /\ \/ \E env \in EnvNames \cup {""}, docker \in BOOLEAN :
             /\ env = "" \/ ~docker
             /\ DDone(IF env = "" THEN RcUsage ELSE RcDockerMissing)
             /\ dlog' = IF env = "" THEN dlog ELSE Append(dlog, <<"no_docker">>)
             /\ UNCHANGED <<containers, denv, dflags, dwants, dinsp, dcname>>
       \/ \E env \in EnvNames, dh \in {NoValue, CliDataDir}, dry \in BOOLEAN,
             nov \in NameOverrides, rmrc \in {0, DockerFail}, yes \in BOOLEAN :
             LET d == facts
                 isDb == d.flavor = "db-mariadb"
                 cname == ContainerName(d, env, nov)
                 legacy == SanitizeName(<<d.name, env>>)
                 rmLegacy == isDb /\ legacy # cname /\ containers[legacy].state # "absent"
                 cont1 == IF rmLegacy THEN [containers EXCEPT ![legacy] = Absent]
                          ELSE containers
                 insp == cont1[cname]
             IN  IF rmLegacy /\ rmrc # 0
                 THEN /\ DDone(rmrc)
                      /\ UNCHANGED <<containers, denv, dflags, dwants, dinsp, dcname, dlog>>
                 ELSE /\ containers' = cont1
                      /\ dflags' = [data_host_dir |-> dh, dry_run |-> dry]
                      /\ IF insp.state = "running" /\ ~yes
                         THEN /\ DDone(RcOk)
                              /\ dlog' = Append(dlog, <<"declined">>)
                              /\ UNCHANGED <<denv, dwants, dinsp, dcname>>
                         ELSE /\ dpc' = "ensure"
                              /\ drc' = drc
                              /\ denv' = env
                              /\ dwants' = (insp.state # "absent")
                              /\ dinsp' = insp
                              /\ dcname' = cname
                              /\ dlog' = dlog
    /\ UNCHANGED <<fs, deleted, refused, ecrTags, plsrEnv, dport>>

Stop == StopUpTo(MaxCmds)
RunBegin == RunBeginUpTo(MaxCmds)

NestedEnv == IF plsrEnv # "" THEN plsrEnv ELSE LocalEnv

\* build._confirm: PLSR_AUTO_REBUILD when it is set, else the answer typed at
\* the prompt; an empty answer is the default, which is no
AutoRebuildValues == {NoValue, "1", "0"}
Answers == {"", "Y", "n"}
\* what the operator may have set and typed: nothing is typed when
\* PLSR_AUTO_REBUILD is set, since no prompt is shown
Operators ==
    {<<a, "">> : a \in AutoRebuildValues \ {NoValue}} \cup {<<NoValue, t>> : t \in Answers}
LowerAnswer(a) == IF a = "Y" THEN "y" ELSE a
Confirm(auto, ans) ==
    IF auto # NoValue THEN auto \in {"1", "true", "yes", "y", "Y"}
    ELSE IF ans = "" THEN FALSE
    ELSE LowerAnswer(ans) \in {"y", "yes"}

\* ensure_db_image_in_ecr up to the question whether to rebuild: the fields
\* of the config, the login, the repository, the lookup of the tag (which
\* answers "not there" when the query itself fails), the prompt
EnsureCheck ==
    /\ dpc = "ensure"
    /\ IF facts.fields.flavor # "db-mariadb"
       THEN dpc' = "redeploy" /\ drc' = drc /\ dlog' = dlog
       ELSE LET f == facts.fields
                ref == ComposeImageRef(f.name, f.ver, f.ecr)
            IN  IF f.name = NoValue \/ f.ver = NoValue \/ f.ecr = NoValue
                THEN DDone(RcUsage) /\ dlog' = dlog
                ELSE IF facts.ensured = NoRef
                THEN dpc' = "redeploy" /\ drc' = drc /\ dlog' = dlog
                ELSE \E login \in {0, DockerFail}, repo \in {0, DockerFail},
                        query \in BOOLEAN, op \in Operators :
                        LET exists == query /\ ref \in ecrTags
                            auto == op[1]
                            ans == op[2]
                            rebuild == Confirm(auto, ans)
                        IN  IF login # 0
                            THEN DDone(login) /\ dlog' = dlog \o <<<<"login">>>>
                            ELSE IF repo # 0
                            THEN /\ DDone(repo)
                                 /\ dlog' = dlog \o <<<<"login">>, <<"ensure_repo">>>>
                            ELSE /\ drc' = drc
                                 /\ dpc' = IF ~exists THEN "build"
                                           ELSE IF rebuild THEN "prestop" ELSE "redeploy"
                                 /\ dlog' = dlog \o <<<<"login">>, <<"ensure_repo">>,
                                                      <<"describe", exists>>>>
                                               \o (IF exists THEN <<<<"confirm", auto, ans>>>>
                                                   ELSE <<>>)
    /\ UNCHANGED <<containers, fs, deleted, refused, ecrTags, plsrEnv, denv, dflags,
                   dwants, dinsp, dcname, cmds, dport>>

\* _stop_local_container_and_delete_data_if_exists: docker stop <env> --name
\* <cname> in a child process, when the container exists
NestedStop(st, cname, o) ==
    IF st.cont[cname].state = "absent" THEN st
    ELSE StopEffect(st, NestedEnv, cname, FALSE, FALSE, o)

\* the two stops before a rebuild: the DB container, then <name>-<env>
EnsurePreStop ==
    /\ dpc = "prestop"
    /\ \E o1 \in StopOutcomes, o2 \in StopOutcomes :
          LET f == facts.fields
              cname_db == facts.build_db_cname
              cname_env == SanitizeName(<<f.name, NestedEnv>>)
              st1 == NestedStop(DockerState, cname_db, o1)
              st2 == IF cname_env # cname_db THEN NestedStop(st1, cname_env, o2) ELSE st1
          IN  /\ SetDockerState(st2)
              /\ dlog' = Append(dlog, <<"prestop", cname_db, containers[cname_db],
                                        cname_env, containers[cname_env]>>)
    /\ dpc' = "deltag"
    /\ UNCHANGED <<ecrTags, plsrEnv, denv, dflags, dwants, dinsp, dcname, drc, cmds, dport>>

\* the deletion's failure passed over
EnsureDeleteTag_IgnoresFailure ==
    /\ dpc = "deltag"
    /\ \E rc \in {0, DockerFail} :
          /\ ecrTags' = IF rc = 0 THEN ecrTags \ {facts.ensured} ELSE ecrTags
          /\ dlog' = Append(dlog, <<"delete_tag", rc>>)
          /\ dpc' = "rebuild"
          /\ drc' = drc
    /\ UNCHANGED <<containers, fs, deleted, refused, plsrEnv, denv, dflags, dwants,
                   dinsp, dcname, cmds, dport>>
\* ecr_delete_image_by_tag, and the return when it fails
EnsureDeleteTag ==
    /\ dpc = "deltag"
    /\ \E rc \in {0, DockerFail} :
          /\ dlog' = Append(dlog, <<"delete_tag", rc>>)
          /\ IF rc # 0 THEN DDone(rc) /\ UNCHANGED ecrTags
             ELSE /\ ecrTags' = ecrTags \ {facts.ensured}
                  /\ dpc' = "rebuild"
                  /\ drc' = drc
    /\ UNCHANGED <<containers, fs, deleted, refused, plsrEnv, denv, dflags, dwants,
                   dinsp, dcname, cmds, dport>>

RcNoBuildx == 3

\* _buildx_build_and_maybe_push(push=True): the push replaces the tag when
\* the registry already holds it
\* (no_cache=False when the tag was not found, no_cache=True after the tag
\* was deleted)
EnsureBuild ==
    /\ dpc \in {"build", "rebuild"}
    /\ \E rc \in {0, DockerFail, RcNoBuildx} :
          LET no_cache == dpc = "rebuild"
          IN  IF rc # 0
              THEN /\ DDone(rc)
                   /\ dlog' = Append(dlog, <<"build", no_cache, rc>>)
                   /\ UNCHANGED ecrTags
              ELSE /\ ecrTags' = ecrTags \cup {facts.ensured}
                   /\ dlog' = dlog \o <<<<"build", no_cache, rc>>,
                                         <<"push", facts.ensured \in ecrTags>>>>
                   /\ dpc' = "redeploy"
                   /\ drc' = drc
    /\ UNCHANGED <<containers, fs, deleted, refused, plsrEnv, denv, dflags, dwants,
                   dinsp, dcname, cmds, dport>>

\* ---- the host port ----

PortAttempts == 50

\* _is_port_free, on the set of the ports that are taken
IsPortFree(port, busy) == port \notin busy

\* _find_free_port(start, attempts): the first free port of
\* range(start, start + max(1, attempts)); 0 stands for None
RECURSIVE FindFrom(_, _, _)
FindFrom(p, end, busy) ==
    IF p >= end THEN 0
    ELSE IF IsPortFree(p, busy) THEN p
    ELSE FindFrom(p + 1, end, busy)
\* the search cut one port short
FindFreePort_OneShort(start, attempts, busy) == FindFrom(start, start + attempts - 1, busy)
FindFreePort(start, attempts, busy) ==
    FindFrom(start, start + (IF attempts > 1 THEN attempts ELSE 1), busy)

\* The ports other processes may hold when docker run looks at port d, with
\* the value of PLSR_STRICT_PORT (one value when port d is free, where it
\* decides nothing).
BusySets(d) == { {d, d + 1, d + 3}, d..(d + PortAttempts - 1), d..(d + PortAttempts) }

\* os.getenv("PLSR_STRICT_PORT", "0").strip().lower() in ("1", "true", "yes", "y")
StrictValues == {NoValue, "1", "0"}
IsStrict(v) == (IF v = NoValue THEN "0" ELSE v) \in {"1", "true", "yes", "y"}
PortCases(d) == {<<{}, NoValue>>} \cup (BusySets(d) \X StrictValues)

NoPort == [set |-> FALSE]

\* auto_run lines 371-388: the host port of the docker run command line.
\* used = 0 when the command gives up.
SettlePort(desired, busy, strictv, explicit) ==
    LET new_port == FindFreePort(desired + 1, PortAttempts, busy)
        shifted == ~explicit /\ ~IsPortFree(desired, busy) /\ ~IsStrict(strictv)
                      /\ new_port # 0
    IN  [set |-> TRUE, explicit |-> explicit, strict |-> strictv, desired |-> desired,
         busy |-> busy,
         used |-> IF explicit \/ IsPortFree(desired, busy) THEN desired
                  ELSE IF IsStrict(strictv) THEN 0
                  ELSE new_port,
         reported |-> shifted]

\* auto_run from the image reference to the removal of the old container and
\* of its data directory (lines 366-420)
RunRedeploy ==
    /\ dpc = "redeploy"
    /\ \E explicit \in BOOLEAN, pc \in PortCases(facts.host_port[denv]),
          rmrc \in {0, DockerFail}, rmtree \in BOOLEAN :
          LET d == facts
              isDb == d.flavor = "db-mariadb"
              port == SettlePort(d.host_port[denv], IF explicit THEN {} ELSE pc[1],
                                 IF explicit THEN NoValue ELSE pc[2], explicit)
              needRm == dwants /\ containers[dcname].state # "absent"
              mnt == DbMountHostDirFromInspect(dinsp, d.data_cont)
              cfgDir == d.host_dir[denv]
              host_dir == Resolve(Expanduser(IF mnt # None THEN mnt
                                             ELSE IF cfgDir # None THEN cfgDir
                                             ELSE DefaultLocalDbDir))
              entry == [path |-> host_dir, env |-> denv]
              removes == host_dir \in fs /\ rmtree
          IN  /\ dport' = port
              /\ IF port.used = 0 \/ (needRm /\ rmrc # 0)
                 THEN /\ DDone(IF port.used = 0 THEN RcPortBusy ELSE rmrc)
                      /\ UNCHANGED <<containers, fs, deleted, refused>>
                 ELSE /\ dpc' = "pull"
                      /\ drc' = drc
                      /\ containers' = IF needRm THEN [containers EXCEPT ![dcname] = Absent]
                                       ELSE containers
                      /\ IF ~(dwants /\ isDb) THEN UNCHANGED <<fs, deleted, refused>>
                         ELSE IF Allowed(host_dir, denv)
                         THEN /\ fs' = EnsureDir(IF removes THEN Rmtree(fs, host_dir)
                                                 ELSE fs, host_dir)
                              /\ deleted' = IF removes THEN deleted \cup {entry}
                                            ELSE deleted
                              /\ refused' = refused
                         ELSE /\ refused' = refused \cup {entry}
                              /\ UNCHANGED <<fs, deleted>>
    /\ UNCHANGED <<ecrTags, plsrEnv, denv, dflags, dwants, dinsp, dcname, cmds, dlog>>

\* ensure_image_pullable
RunPull ==
    /\ dpc = "pull"
    /\ \E rc \in {0, DockerFail} :
          IF rc # 0 THEN DDone(rc) ELSE dpc' = "launch" /\ drc' = drc
    /\ UNCHANGED <<containers, fs, deleted, refused, ecrTags, plsrEnv, denv, dflags,
                   dwants, dinsp, dcname, cmds, dlog, dport>>

\* auto_run from the docker run command line to its execution (lines 427-483)
RunLaunch ==
    /\ dpc = "launch"
    /\ \E rc \in {0, DockerFail} :
          LET d == facts
              isDb == d.flavor = "db-mariadb"
              cfgDir == d.host_dir[denv]
              host_dir_for_run ==
                  IF dflags.data_host_dir # NoValue THEN PathOf(dflags.data_host_dir)
                  ELSE IF cfgDir # None THEN cfgDir ELSE DefaultLocalDbDir
              \* docker run --name fails when a container of that name exists
              conflict == containers[dcname].state # "absent"
          IN  /\ fs' = IF isDb THEN EnsureDir(fs, host_dir_for_run) ELSE fs
              /\ IF dflags.dry_run THEN DDone(RcOk) /\ UNCHANGED <<containers, dlog>>
                 ELSE IF conflict \/ rc # 0
                      THEN /\ DDone(IF conflict THEN DockerFail ELSE rc)
                           /\ UNCHANGED <<containers, dlog>>
                 ELSE /\ DDone(RcOk)
                      /\ dlog' = Append(dlog, <<"run", dport.used>>)
                      /\ containers' =
                            [containers EXCEPT ![dcname] =
                                [state |-> "running",
                                 src |-> IF isDb THEN host_dir_for_run ELSE None,
                                 dest |-> IF isDb THEN d.data_cont ELSE ""]]
    /\ UNCHANGED <<deleted, refused, ecrTags, plsrEnv, denv, dflags, dwants, dinsp,
                   dcname, cmds, dport>>

\* the command has returned
Finish ==
    /\ dpc = "done"
    /\ dpc' = "idle"
    /\ drc' = RcOk
    /\ denv' = ""
    /\ dflags' = NoFlags
    /\ dwants' = FALSE
    /\ dinsp' = Absent
    /\ dcname' = NoName
    /\ dlog' = <<>>
    /\ dport' = NoPort
    /\ UNCHANGED <<containers, fs, deleted, refused, ecrTags, plsrEnv, cmds>>

DockerAtRest ==
    /\ containers = [n \in CNames |-> Absent]
    /\ fs = {}
    /\ deleted = {}
    /\ refused = {}
    /\ ecrTags = {}
    /\ plsrEnv = ""
    /\ dpc = "idle"
    /\ drc = RcOk
    /\ denv = ""
    /\ dflags = NoFlags
    /\ dwants = FALSE
    /\ dinsp = Absent
    /\ dcname = NoName
    /\ cmds = 0
    /\ dlog = <<>>
    /\ dport = NoPort

ConfigAtRest ==
    /\ cfg = <<>>
    /\ facts = NoFacts
    /\ envName = "dev"
    /\ osenv = NoEnv
    /\ runOut = NotRun
    /\ buildOut = NotRun
    /\ helmOut = NotRun

(***************************************************************************)
(*                     ONE CALL OF parse_ecr_image_ref                     *)
(***************************************************************************)

\* one call of parse_ecr_image_ref
Parse ==
    /\ pout = NotRun
    /\ pout' = [done |-> TRUE, res |-> ParseEcrImageRef(pref)]
    /\ UNCHANGED pref

ParseAtRest ==
    /\ pref = <<>>
    /\ pout = NotRun

(***************************************************************************)
(*        HELM RELEASE: _preflight_ecr_for_k8s_pull and its verifier       *)
(***************************************************************************)

\* the image references a release may carry: a private registry, a host that
\* only begins like one, the public registry, and another registry
HelmImages ==
    { PiecesOf(TopReg) \o <<"/", "billing", ":", "1.2.0">>,
      PiecesOf(EvilReg) \o <<"/", "billing", ":", "1.2.0">>,
      <<PublicHost, "/", "acme", "/", "billing", ":", "1.2.0">>,
      <<"docker.io", "/", "acme", "/", "billing", ":", "1.2.0">> }

\* plsr_ECR_PULLCHECK_TIMEOUT: unset, two numbers, and text int() rejects
PullcheckTimeouts == {NoValue, "4", "30", "soon"}
DefaultPullTimeout == 120
MinPullTimeout == 10
IsIntText(v) == v \in {"4", "30"}
TimeoutSeconds(v) ==
    CASE v = NoValue -> DefaultPullTimeout
      [] v = "4" -> 4
      [] v = "30" -> 30
      [] OTHER -> 0
Deadline(now, v) ==
    now + (IF TimeoutSeconds(v) > MinPullTimeout THEN TimeoutSeconds(v)
           ELSE MinPullTimeout)

\* time.sleep(2) after a poll, and the seconds a kubectl get may take
PollSleep == 2
Latencies == {0, 3}

\* exit codes
RcNoKubectl == 127
RcPullFailed == 1
ToolFail == 255

\* what kubectl get pod -o json shows at one poll: no object, an object
\* without container statuses, or the status of the first container
NoView == [seen |-> FALSE, found |-> FALSE, statuses |-> FALSE, imageID |-> "",
           phase |-> "", ready |-> FALSE, reason |-> ""]
TerminalReasons == {"ErrImagePull", "ImagePullBackOff", "RegistryUnavailable",
                    "InvalidImageName", "Unauthorized", "Forbidden"}
WaitingReasons == TerminalReasons \cup {"", "ContainerCreating"}
PodViews ==
    {[NoView EXCEPT !.seen = TRUE],
     [NoView EXCEPT !.seen = TRUE, !.found = TRUE, !.phase = "Pending"]}
    \cup [seen : {TRUE}, found : {TRUE}, statuses : {TRUE},
          imageID : {"", "sha256:abc"}, phase : {"Pending", "Running"},
          ready : BOOLEAN, reason : WaitingReasons]

\* one pass of the poll loop over what the pod shows
Verdict_WaitOut(view) ==
    IF ~view.found \/ ~view.statuses THEN "again"
    ELSE IF view.imageID # "" THEN "success"
    ELSE "again"
Verdict(view) ==
    IF ~view.found THEN "again"
    ELSE IF ~view.statuses THEN "again"
    ELSE IF view.imageID # "" THEN "success"
    ELSE IF view.reason \in TerminalReasons THEN "failure"
    ELSE "again"

\* the finally clause of the verifier: _delete_pod
LeaveVerifier_OnFailureOnly(log, rc) == IF rc = 0 THEN log ELSE Append(log, <<"delete">>)
LeaveVerifier(log, rc) == Append(log, <<"delete">>)

SecretSet == <<"--set", "imagePullSecrets[0]=ecr-pull-rel">>

\* what _preflight_ecr_for_k8s_pull returns once the verifier returned rc
HReturn(rc, log) ==
    /\ hpc' = "done"
    /\ hrc' = rc
    /\ hraised' = FALSE
    /\ hsets' = IF rc = 0 /\ \E i \in DOMAIN log : log[i][1] = "secret"
                THEN SecretSet ELSE <<>>
HRaise ==
    /\ hpc' = "done"
    /\ hrc' = hrc
    /\ hraised' = TRUE
    /\ hsets' = <<>>

\* _preflight_ecr_for_k8s_pull up to the call of the verifier
HelmPreflight ==
    /\ hpc = "preflight"
    /\ LET parts == ParseEcrImageRef(himage)
       IN  IF ~parts.found THEN HReturn(0, hlog) /\ hlog' = hlog
           ELSE IF ~parts.private THEN
                /\ hpc' = "verify"
                /\ UNCHANGED <<hrc, hraised, hsets, hlog>>
           ELSE \E sts \in {0, ToolFail}, pw \in {"token", "", "failed"},
                   apply \in {0, 1} :
                   LET identity == Append(hlog, <<"sts", sts>>)
                       login == Append(identity, <<"login", pw>>)
                       secret == Append(login, <<"secret", IF hkubectl THEN apply
                                                          ELSE RcNoKubectl>>)
                   IN  IF parts.region = <<>> THEN HReturn(1, hlog) /\ hlog' = hlog
                       ELSE IF sts # 0 THEN HReturn(sts, identity) /\ hlog' = identity
                       ELSE IF pw = "failed"
                       THEN HReturn(ToolFail, login) /\ hlog' = login
                       ELSE IF pw = "" THEN HReturn(1, login) /\ hlog' = login
                       ELSE IF ~hkubectl
                       THEN HReturn(RcNoKubectl, secret) /\ hlog' = secret
                       ELSE IF apply # 0 THEN HReturn(apply, secret) /\ hlog' = secret
                       ELSE /\ hlog' = Append(secret, <<"adopt">>)
                            /\ hpc' = "verify"
                            /\ UNCHANGED <<hrc, hraised, hsets>>
    /\ UNCHANGED <<himage, hkubectl, htimeout, hnow, hdeadline, hobs>>

\* _verify_namespace_can_pull_image up to the poll loop
HelmVerifyBegin ==
    /\ hpc = "verify"
    /\ \E tmp \in BOOLEAN, apply \in {0, 1} :
          IF ~hkubectl THEN HReturn(RcNoKubectl, hlog) /\ UNCHANGED <<hlog, hdeadline>>
          ELSE IF ~tmp
          THEN /\ HRaise
               /\ hlog' = LeaveVerifier(Append(hlog, <<"tmpfile", FALSE>>), 1)
               /\ UNCHANGED hdeadline
          ELSE LET log == hlog \o <<<<"tmpfile", TRUE>>, <<"apply", apply>>>>
               IN  IF apply # 0
                   THEN /\ HReturn(apply, log)
                        /\ hlog' = LeaveVerifier(log, apply)
                        /\ UNCHANGED hdeadline
                   ELSE IF htimeout # NoValue /\ ~IsIntText(htimeout)
                   THEN /\ HRaise
                        /\ hlog' = LeaveVerifier(log, 1)
                        /\ UNCHANGED hdeadline
                   ELSE /\ hlog' = log
                        /\ hdeadline' = Deadline(hnow, htimeout)
                        /\ hpc' = "poll"
                        /\ UNCHANGED <<hrc, hraised, hsets>>
    /\ UNCHANGED <<himage, hkubectl, htimeout, hnow, hobs>>

\* one pass of the poll loop, the test of the deadline that follows it, and
\* what the verifier and the preflight do when the loop ends
HelmPoll ==
    /\ hpc = "poll"
    /\ \E view \in PodViews, lat \in Latencies :
          LET log == Append(hlog, <<"poll">>)
              v == Verdict(view)
              now == hnow + lat + PollSleep
          IN  /\ hobs' = view
              /\ IF v = "success"
                 THEN /\ HReturn(0, log)
                      /\ hlog' = LeaveVerifier(log, 0)
                      /\ hnow' = hnow + lat
                 ELSE IF v = "failure"
                 THEN /\ HReturn(RcPullFailed, log)
                      /\ hlog' = LeaveVerifier(log, RcPullFailed)
                      /\ hnow' = hnow + lat
                 ELSE IF now >= hdeadline
                 THEN /\ HReturn(RcPullFailed, log)
                      /\ hlog' = LeaveVerifier(log, RcPullFailed)
                      /\ hnow' = now
                 ELSE /\ hlog' = log
                      /\ hnow' = now
                      /\ UNCHANGED <<hpc, hrc, hraised, hsets>>
    /\ UNCHANGED <<himage, hkubectl, htimeout, hdeadline>>

\* release, lines 447-453: the namespace, then the secret of the root
\* password, whose outcome is not looked at
ReleaseBegin ==
    /\ hpc = "release"
    /\ \E ns \in {0, 1}, apply \in {0, 1} :
          LET named == IF hkubectl THEN Append(hlog, <<"namespace", ns>>) ELSE hlog
              stored == IF hkubectl
                        THEN named \o <<<<"root_secret", apply>>, <<"adopt">>>>
                        ELSE Append(named, <<"root_secret", RcNoKubectl>>)
          IN  IF hkubectl /\ ns # 0
              THEN /\ hpc' = "returned"
                   /\ hrc' = 1
                   /\ hlog' = named
              ELSE /\ hpc' = "preflight"
                   /\ hrc' = hrc
                   /\ hlog' = stored
    /\ UNCHANGED <<himage, hkubectl, htimeout, hraised, hsets, hnow, hdeadline, hobs>>

\* release, lines 457-499: what the preflight returned decides whether helm
\* upgrade --install is run; an exception of the preflight goes through
ReleaseEnd ==
    /\ hpc = "done"
    /\ hpc' = "returned"
    /\ IF hraised THEN UNCHANGED <<hrc, hlog>>
       ELSE IF hrc # 0
       THEN /\ hlog' = Append(hlog, <<"preflight", hrc>>)
            /\ hrc' = hrc
       ELSE \E rc \in {0, 1} :
               /\ hlog' = hlog \o <<<<"preflight", 0>>, <<"upgrade", rc>>>>
               /\ hrc' = rc
    /\ UNCHANGED <<himage, hkubectl, htimeout, hraised, hsets, hnow, hdeadline, hobs>>

HelmAtRest ==
    /\ himage = <<>>
    /\ hkubectl = TRUE
    /\ htimeout = NoValue
    /\ hpc = "idle"
    /\ hrc = 0
    /\ hraised = FALSE
    /\ hsets = <<>>
    /\ hnow = 0
    /\ hdeadline = 0
    /\ hobs = NoView
    /\ hlog = <<>>

RestAtRest ==
    /\ ParseAtRest
    /\ HelmAtRest

(***************************************************************************)
(*                          SPECIFICATIONS                                 *)
(***************************************************************************)

MigrateFresh ==
    /\ ledger = {}
    /\ dbCreated = FALSE
    /\ tableCreated = FALSE
    /\ mpc = "idle"
    /\ attempt = 0
    /\ pinged = FALSE
    /\ files = <<>>
    /\ applied = {}
    /\ idx = 1
    /\ checksum = None
    /\ mrc = RcOk
    /\ evts = <<>>
    /\ ledger0 = {}
    /\ execCount = [n \in FileNames |-> 0]
    /\ runs = 0
    /\ edits = 0
    /\ modified = FALSE
    /\ cleanRuns = 0

InitMigrate ==
    /\ dbdir \in [FileNames -> {NoFile, "v1"}]
    /\ MigrateFresh
    /\ RestAtRest
    /\ ConfigAtRest
    /\ DockerAtRest

NextMigrate ==
    \/ Invoke /\ UNCHANGED <<cvars, dvars, rvars>>
    \/ WaitForDb /\ UNCHANGED <<cvars, dvars, rvars>>
    \/ EnsureDbAndUser /\ UNCHANGED <<cvars, dvars, rvars>>
    \/ EnsureLedger /\ UNCHANGED <<cvars, dvars, rvars>>
    \/ ListAndRead /\ UNCHANGED <<cvars, dvars, rvars>>
    \/ LoopFile /\ UNCHANGED <<cvars, dvars, rvars>>
    \/ InsertLedger /\ UNCHANGED <<cvars, dvars, rvars>>
    \/ LoopEnd /\ UNCHANGED <<cvars, dvars, rvars>>
    \/ Return /\ UNCHANGED <<cvars, dvars, rvars>>
    \/ AddFile /\ UNCHANGED <<cvars, dvars, rvars>>
    \/ ModifyFile /\ UNCHANGED <<cvars, dvars, rvars>>

SpecMigrate == InitMigrate /\ [][NextMigrate]_vars

InitConfig ==
    /\ cfg \in Configs
    /\ facts = NoFacts
    /\ envName \in EnvNames
    /\ osenv \in Environs
    /\ runOut = NotRun
    /\ buildOut = NotRun
    /\ helmOut = NotRun
    /\ dbdir = [n \in FileNames |-> NoFile]
    /\ MigrateFresh
    /\ RestAtRest
    /\ DockerAtRest

NextConfig ==
    \/ ResolveForRun /\ UNCHANGED <<mvars, dvars, rvars>>
    \/ ResolveForBuild /\ UNCHANGED <<mvars, dvars, rvars>>
    \/ ResolveForHelm /\ UNCHANGED <<mvars, dvars, rvars>>

SpecConfig == InitConfig /\ [][NextConfig]_vars

InitDocker ==
    /\ cfg \in DockerConfigs
    /\ facts = Derive(cfg)
    /\ envName = "dev"
    /\ osenv = NoEnv
    /\ runOut = NotRun
    /\ buildOut = NotRun
    /\ helmOut = NotRun
    /\ dbdir = [n \in FileNames |-> NoFile]
    /\ MigrateFresh
    /\ RestAtRest
    /\ \E db \in InitDbContainers, legacy \in InitLegacyContainers :
          containers = [n \in CNames |->
                           IF n = <<"billing">> THEN db
                           ELSE IF n = <<"billing", "dev">> THEN legacy ELSE Absent]
    /\ fs = EnsureDirs({}, DataDirs)
    /\ deleted = {}
    /\ refused = {}
    /\ ecrTags \in {{}, {<<TopReg, "billing", "1.2.0">>}}
    /\ plsrEnv \in {"", "dev"}
    /\ dpc = "idle"
    /\ drc = RcOk
    /\ denv = ""
    /\ dflags = NoFlags
    /\ dwants = FALSE
    /\ dinsp = Absent
    /\ dcname = NoName
    /\ cmds = 0
    /\ dlog = <<>>
    /\ dport = NoPort

NextDocker ==
    \/ RunBegin /\ UNCHANGED <<mvars, cvars, rvars>>
    \/ EnsureCheck /\ UNCHANGED <<mvars, cvars, rvars>>
    \/ EnsurePreStop /\ UNCHANGED <<mvars, cvars, rvars>>
    \/ EnsureDeleteTag /\ UNCHANGED <<mvars, cvars, rvars>>
    \/ EnsureBuild /\ UNCHANGED <<mvars, cvars, rvars>>
    \/ RunRedeploy /\ UNCHANGED <<mvars, cvars, rvars>>
    \/ RunPull /\ UNCHANGED <<mvars, cvars, rvars>>
    \/ RunLaunch /\ UNCHANGED <<mvars, cvars, rvars>>
    \/ Stop /\ UNCHANGED <<mvars, cvars, rvars>>
    \/ Finish /\ UNCHANGED <<mvars, cvars, rvars>>

SpecDocker == InitDocker /\ [][NextDocker]_vars

\* a DB service on a host without containers: commands in a row
InitDockerSeq ==
    /\ cfg \in {c \in DockerConfigs : DetectFlavor(c) = "db-mariadb"}
    /\ facts = Derive(cfg)
    /\ envName = "dev"
    /\ osenv = NoEnv
    /\ runOut = NotRun
    /\ buildOut = NotRun
    /\ helmOut = NotRun
    /\ dbdir = [n \in FileNames |-> NoFile]
    /\ MigrateFresh
    /\ RestAtRest
    /\ containers = [n \in CNames |-> Absent]
    /\ fs = {}
    /\ deleted = {}
    /\ refused = {}
    /\ ecrTags = {<<TopReg, "billing", "1.2.0">>}
    /\ plsrEnv = ""
    /\ dpc = "idle"
    /\ drc = RcOk
    /\ denv = ""
    /\ dflags = NoFlags
    /\ dwants = FALSE
    /\ dinsp = Absent
    /\ dcname = NoName
    /\ cmds = 0
    /\ dlog = <<>>
    /\ dport = NoPort

NextDockerSeq ==
    \/ RunBeginUpTo(MaxSeqCmds) /\ UNCHANGED <<mvars, cvars, rvars>>
    \/ EnsureCheck /\ UNCHANGED <<mvars, cvars, rvars>>
    \/ EnsurePreStop /\ UNCHANGED <<mvars, cvars, rvars>>
    \/ EnsureDeleteTag /\ UNCHANGED <<mvars, cvars, rvars>>
    \/ EnsureBuild /\ UNCHANGED <<mvars, cvars, rvars>>
    \/ RunRedeploy /\ UNCHANGED <<mvars, cvars, rvars>>
    \/ RunPull /\ UNCHANGED <<mvars, cvars, rvars>>
    \/ RunLaunch /\ UNCHANGED <<mvars, cvars, rvars>>
    \/ StopUpTo(MaxSeqCmds) /\ UNCHANGED <<mvars, cvars, rvars>>
    \/ Finish /\ UNCHANGED <<mvars, cvars, rvars>>

SpecDockerSeq == InitDockerSeq /\ [][NextDockerSeq]_vars

InitParse ==
    /\ dbdir = [n \in FileNames |-> NoFile]
    /\ MigrateFresh
    /\ ConfigAtRest
    /\ DockerAtRest
    /\ HelmAtRest
    /\ \E h \in Hosts, q \in Paths : pref = h \o q
    /\ pout = NotRun

NextParse ==
    \/ Parse /\ UNCHANGED <<mvars, cvars, dvars, hvars>>

SpecParse == InitParse /\ [][NextParse]_vars

InitHelm ==
    /\ dbdir = [n \in FileNames |-> NoFile]
    /\ MigrateFresh
    /\ ConfigAtRest
    /\ DockerAtRest
    /\ ParseAtRest
    /\ himage \in HelmImages
    /\ hkubectl \in BOOLEAN
    /\ htimeout \in PullcheckTimeouts
    /\ hpc = "preflight"
    /\ hrc = 0
    /\ hraised = FALSE
    /\ hsets = <<>>
    /\ hnow = 0
    /\ hdeadline = 0
    /\ hobs = NoView
    /\ hlog = <<>>

NextHelm ==
    \/ HelmPreflight /\ UNCHANGED <<mvars, cvars, dvars, pvars>>
    \/ HelmVerifyBegin /\ UNCHANGED <<mvars, cvars, dvars, pvars>>
    \/ HelmPoll /\ UNCHANGED <<mvars, cvars, dvars, pvars>>

SpecHelm == InitHelm /\ [][NextHelm]_vars

\* helm release from the namespace on
InitRelease ==
    /\ dbdir = [n \in FileNames |-> NoFile]
    /\ MigrateFresh
    /\ ConfigAtRest
    /\ DockerAtRest
    /\ ParseAtRest
    /\ himage \in HelmImages
    /\ hkubectl \in BOOLEAN
    /\ htimeout \in {"4", "soon"}
    /\ hpc = "release"
    /\ hrc = 0
    /\ hraised = FALSE
    /\ hsets = <<>>
    /\ hnow = 0
    /\ hdeadline = 0
    /\ hobs = NoView
    /\ hlog = <<>>

NextRelease ==
    \/ ReleaseBegin /\ UNCHANGED <<mvars, cvars, dvars, pvars>>
    \/ HelmPreflight /\ UNCHANGED <<mvars, cvars, dvars, pvars>>
    \/ HelmVerifyBegin /\ UNCHANGED <<mvars, cvars, dvars, pvars>>
    \/ HelmPoll /\ UNCHANGED <<mvars, cvars, dvars, pvars>>
    \/ ReleaseEnd /\ UNCHANGED <<mvars, cvars, dvars, pvars>>

SpecRelease == InitRelease /\ [][NextRelease]_vars

\* one of the two commands with a retry loop is run: db migrate, or the
\* preflight of helm release
InitLoops == InitMigrate \/ InitHelm

NextLoops ==
    \/ HelmAtRest /\ NextMigrate
    \/ NextHelm

SpecLoops == InitLoops /\ [][NextLoops]_vars

(***************************************************************************)
(*                 PROPERTIES OF THE MIGRATION LEDGER                      *)
(***************************************************************************)

Present(n) == dbdir[n] # NoFile
Events == DOMAIN evts
IsExec(i) == evts[i][1] = "exec"
ExecutedInRun(n) == \E i \in Events : IsExec(i) /\ evts[i][2] = n
RowsOf(rows, n) == {r \in rows : r[1] = n}
LastEvent == evts[Len(evts)]

\* C1: over a directory whose files are never modified, every SQL file is
\* executed against the database at most once in total, whatever fails in the
\* invocations (ledger read, ledger insert, an abort part-way).  Only the
\* executions that ended with exit code 0 are counted.
C1_ExecutedAtMostOnce ==
    ~modified => \A n \in FileNames : execCount[n] <= 1

\* C2: a run that follows a successful run over the same unchanged files and
\* gets as far as the ledger executes no SQL file, inserts no row, leaves the
\* ledger as it was and returns 0.
C2_SecondRunIsNoOp ==
    (mpc = "done" /\ cleanRuns >= 1 /\ evts # <<>>) =>
        /\ \A n \in FileNames : ~ExecutedInRun(n)
        /\ ledger = ledger0
        /\ mrc = RcOk

\* C3: when a file recorded in the ledger has a different checksum now, the
\* invocation returns non-zero, executes neither that file nor any file that
\* sorts after it, and leaves the rows that existed as they were.
ModifiedSinceApplied(n) ==
    /\ Present(n)
    /\ HasKey(ledger0, n)
    /\ Get(ledger0, n) # FileChecksum(dbdir[n])

C3_ModifiedFileRefused ==
    mpc = "done" =>
        \A n \in FileNames :
            ModifiedSinceApplied(n) =>
                /\ mrc # RcOk
                /\ ~ExecutedInRun(n)
                /\ \A g \in FileNames : NameLess(n, g) => ~ExecutedInRun(g)
                /\ ledger0 \subseteq ledger

\* C4 as stated: an invocation that ends by refusing a modified file has
\* executed no migration file and inserted no ledger row.
RefusedAt(i) == evts[i][1] = "refuse"

C4_NoPartialAction ==
    (mpc = "done" /\ evts # <<>> /\ RefusedAt(Len(evts))) =>
        /\ \A n \in FileNames : ~ExecutedInRun(n)
        /\ ledger = ledger0

\* C4 as amended: in an invocation that refuses a modified file f nothing
\* follows the refusal; what was executed and recorded before it are files
\* that had no ledger row and sort before f, and the rows that existed are
\* left as they were.
C4_NoActionFromRefusedFileOn ==
    \A i \in Events :
        RefusedAt(i) =>
            /\ i = Len(evts)
            /\ mpc = "done" /\ mrc # RcOk
            /\ ledger0 \subseteq ledger
            /\ \A r \in ledger \ ledger0 : NameLess(r[1], evts[i][2])
            /\ \A j \in Events :
                  evts[j][1] \in {"exec", "insert"} =>
                      /\ NameLess(evts[j][2], evts[i][2])
                      /\ ~HasKey(ledger0, evts[j][2])

\* C4's case: a refusal that came after a new file was applied
C4_Witness ==
    /\ mpc = "done"
    /\ evts # <<>>
    /\ RefusedAt(Len(evts))
    /\ ledger # ledger0

\* C5: a file is executed only after every file of db/ with a smaller name
\* was skipped as already applied, or executed and recorded; and from an
\* empty ledger a successful run over 001_init.sql and 002_add_index.sql
\* executes 001 then 002 and leaves exactly their two rows, each with the
\* sha256 of the file's content.
HandledBefore(g, i) ==
    \E j \in 1..(i - 1) : evts[j] = <<"skip", g, 0>> \/ evts[j] = <<"insert", g, 0>>

OnlyTheTwoFiles == {n \in FileNames : Present(n)} = {F001, F002}

C5_FilenameOrder ==
    /\ \A i \in Events :
          IsExec(i) =>
              \A g \in FileNames :
                  (Present(g) /\ NameLess(g, evts[i][2])) => HandledBefore(g, i)
    /\ (mpc = "done" /\ mrc = RcOk /\ ledger0 = {} /\ OnlyTheTwoFiles) =>
          /\ ledger = { <<F001, FileChecksum(dbdir[F001])>>,
                        <<F002, FileChecksum(dbdir[F002])>> }
          /\ Len(evts) = 5
          /\ SubSeq(evts, 2, 5) =
                << <<"exec", F001, 0>>, <<"insert", F001, 0>>,
                   <<"exec", F002, 0>>, <<"insert", F002, 0>> >>

C5_Witness ==
    /\ mpc = "done" /\ mrc = RcOk /\ ledger0 = {} /\ OnlyTheTwoFiles
    /\ Cardinality(ledger) = 2

\* C6: the ledger only grows: no step removes or changes a row; a row for f
\* is inserted only right after f's SQL ran with exit code 0; and when the
\* execution of f fails the run stops there with that exit code, with no row
\* for f inserted, no later file executed and the earlier rows intact.
ExecFailedAt(i) == IsExec(i) /\ evts[i][3] # 0

C6_StepRule ==
    /\ ledger \subseteq ledger'
    /\ \A r \in ledger' \ ledger :
          /\ evts # <<>>
          /\ LastEvent = <<"exec", r[1], 0>>
          /\ r[2] = FileChecksum(dbdir[r[1]])
    /\ \A i \in DOMAIN evts' :
          (i > Len(evts) /\ evts'[i][1] = "exec" /\ evts'[i][3] # 0) =>
              /\ mpc' = "done"
              /\ mrc' = evts'[i][3]
              /\ ledger' = ledger

C6_AfterFailure ==
    \A i \in Events :
        ExecFailedAt(i) =>
            /\ i = Len(evts)
            /\ mpc = "done"
            /\ mrc = evts[i][3]
            /\ RowsOf(ledger, evts[i][2]) = RowsOf(ledger0, evts[i][2])
            /\ ledger0 \subseteq ledger

C6_LedgerOnlyGrows == [][C6_StepRule]_vars /\ []C6_AfterFailure

\* C6's case: a file failed after an earlier file of the run was recorded
C6_Witness ==
    /\ evts # <<>>
    /\ ExecFailedAt(Len(evts))
    /\ ledger # ledger0

(***************************************************************************)
(*          PROPERTIES OF THE CONFIG EXTRACTOR AND RESOLVERS               *)
(***************************************************************************)

\* A block as the documents describe it: the lines that follow the opener
\* `key:` standing at indent lvl, up to the first line that is not deeper.
ScopedBlock(text, key, lvl) ==
    LET openers == {i \in DOMAIN text : text[i] = <<lvl, key, "">>}
    IN  IF openers = {} THEN <<>>
        ELSE LET i == MinOf(openers)
                 e == MaxOf({j \in i..Len(text) :
                                \A k \in (i + 1)..j : Ind(text[k]) > lvl})
             IN  SubSeq(text, i + 1, e)

\* the value of the key standing directly in a block (at indent lvl)
ScopedValue(block, key, lvl) ==
    LET hits == {i \in DOMAIN block : Ind(block[i]) = lvl /\ Key(block[i]) = key}
    IN  IF hits = {} THEN NoValue ELSE Val(block[MinOf(hits)])

ServiceBlock == ScopedBlock(cfg, "service", 0)
EnvBlock == ScopedBlock(ScopedBlock(cfg, "environments", 0), envName, 1)
ValuesIn(block) == {Val(block[i]) : i \in DOMAIN block}
TopLevelValues(key) == {Val(cfg[i]) : i \in {j \in DOMAIN cfg : Ind(cfg[j]) = 0 /\ Key(cfg[j]) = key}}

MariadbAliases == {"mariadb", "mysql", "db-mariadb", "db_mysql"}

\* C8: when the service block has no flavor key, or a flavor outside the
\* mariadb aliases (case-insensitive), every command detects the generic app
\* flavor, whatever the rest of the config mentions.
C8_FlavorExplicitOnly ==
    LET fl == ScopedValue(ServiceBlock, "flavor", 1)
    IN  FoldCase(fl) \notin MariadbAliases =>
            /\ runOut.done => runOut.flavor = "python-app"
            /\ buildOut.done => buildOut.fields.flavor = "python-app"
            /\ helmOut.done => helmOut.flavor = "python-app"

\* C9: the block extracted for a section is exactly the run of indented lines
\* that follows its opener, a lookup inside a block returns only values of
\* that block, and a top-level lookup returns only values of unindented lines.
C9_LookupsAreScoped ==
    /\ runOut.done =>
          /\ runOut.svc = ServiceBlock
          /\ runOut.env = EnvBlock
          /\ runOut.svcFlavor \in ValuesIn(ServiceBlock) \cup {NoValue}
          /\ runOut.envEcr \in ValuesIn(EnvBlock) \cup {NoValue}
          /\ runOut.port \in {ParseInt(v) : v \in ValuesIn(EnvBlock)} \cup {0}
          /\ runOut.name \in TopLevelValues("name") \cup {RootName}
    /\ buildOut.done =>
          /\ buildOut.fields.name \in TopLevelValues("name") \cup {NoValue}
    /\ helmOut.done =>
          /\ helmOut.name \in TopLevelValues("name") \cup {RootName}

\* C10: when the config has both environments.<env>.ECR and a top-level ECR
\* key, docker run, docker build and helm release resolve the registry root to
\* the per-environment value.
C10_PerEnvRegistryWins ==
    LET envEcr == ScopedValue(EnvBlock, "ECR", 2)
        topEcr == ScopedValue(cfg, "ECR", 0)
    IN  (envEcr # NoValue /\ topEcr # NoValue) =>
            /\ runOut.done => runOut.ecr = RstripSlash(envEcr)
            /\ buildOut.done => buildOut.fields.ecr = RstripSlash(envEcr)
            /\ (helmOut.done /\ helmOut.repo = NoValue) => helmOut.ecr = RstripSlash(envEcr)

\* the lines of the config that declare an ECR key, at any depth
EcrLines == {i \in DOMAIN cfg : FoldCase(Key(cfg[i])) = "ecr"}
\* the registry environment variables that are set, as registry roots
EnvRoots == {RstripSlash(osenv[v]) : v \in {w \in DOMAIN osenv : osenv[w] # ""}}

\* C11: in a config whose only ECR keys stand at the top level, every resolver
\* returns the top-level value whatever the environment variables hold; in a
\* config with no ECR key and a registry environment variable set, every
\* resolver returns the value of one of those variables, not a scanned host.
C11_LowerPrecedenceSteps ==
    /\ (EcrLines # {} /\ \A i \in EcrLines : Ind(cfg[i]) = 0) =>
          LET top == RstripSlash(Val(cfg[MinOf(EcrLines)]))
          IN  /\ runOut.done => runOut.ecr = top
              /\ buildOut.done => buildOut.fields.ecr = top
              /\ (helmOut.done /\ helmOut.repo = NoValue) => helmOut.ecr = top
    /\ (EcrLines = {} /\ EnvRoots # {}) =>
          /\ runOut.done => runOut.ecr \in EnvRoots
          /\ buildOut.done => buildOut.fields.ecr \in EnvRoots
          /\ (helmOut.done /\ helmOut.repo = NoValue) => helmOut.ecr \in EnvRoots

\* C12: in one docker run of a DB service, the image reference that
\* ensure_db_image_in_ecr ensured in the registry is the image reference the
\* command then pulls and runs.
C12_EnsuredImageIsRunImage ==
    (runOut.done /\ runOut.flavor = "db-mariadb" /\ runOut.ensured # NoRef) =>
        runOut.image = runOut.ensured

\* C13: the reference print-tag prints is the resolved registry root, name
\* and version joined as root/name:version; and for a config whose top-level
\* keys declare name billing, version 1.2.0 and ECR 1111...amazonaws.com it is
\* 1111...amazonaws.com/billing:1.2.0, with exit code 0.
C13_ImageRefComposition ==
    buildOut.done =>
        /\ buildOut.printed.rc = RcOk =>
               buildOut.printed.out =
                   <<buildOut.fields.ecr, buildOut.fields.name, buildOut.fields.ver>>
        /\ (/\ TopLevelValues("name") = {"billing"}
            /\ TopLevelValues("version") = {"1.2.0"}
            /\ TopLevelValues("ECR") = {TopReg}) =>
               buildOut.printed = [out |-> <<TopReg, "billing", "1.2.0">>, rc |-> RcOk]

\* C23: when the config has no top-level name or no top-level version, docker
\* build, print-tag, ensure_db_image_in_ecr and helm release each exit with
\* code 2 without starting any build, registry, kubectl or helm command.
C23_NoActionWithoutIdentity ==
    (TopLevelValues("name") = {} \/ TopLevelValues("version") = {}) =>
        /\ buildOut.done =>
              /\ buildOut.build = [starts |-> FALSE, rc |-> 2]
              /\ buildOut.ensure = [starts |-> FALSE, rc |-> 2]
              /\ buildOut.printed.rc = 2
        /\ helmOut.done =>
              helmOut.release = [starts |-> FALSE, rc |-> 2]

(***************************************************************************)
(*            PROPERTIES OF DOCKER RUN AND DOCKER STOP                     *)
(***************************************************************************)

\* environments.<env>.data_dir as the documents read it: the data_dir key
\* standing in the block of that environment
ConfiguredDataDir(env) ==
    ScopedValue(ScopedBlock(ScopedBlock(cfg, "environments", 0), env, 1), "data_dir", 2)

AllowListedBases(env) ==
    {DefaultLocalDbDir, AppRoot \o <<".plsr", "data", "mariadb">>, Home \o <<"dev", "plsr">>}
        \cup (IF ConfiguredDataDir(env) # NoValue THEN {PathOf(ConfiguredDataDir(env))}
              ELSE {})

\* C7: docker run and docker stop remove a host data directory only when its
\* resolved path is one of the allow-listed bases of the environment the
\* command was given, or lies under one.
C7_DeletionOnlyUnderAllowList ==
    \A d \in deleted : \E base \in AllowListedBases(d.env) : IsRelativeTo(d.path, base)

\* <12 digits>.dkr.ecr.<region>.amazonaws.com, the whole host
IsPrivateShape(host) ==
    /\ Len(host) >= 4
    /\ host[1] \in AcctPieces
    /\ host[2] = DkrEcr
    /\ \A j \in 3..(Len(host) - 1) : host[j] \in RegionPieces
    /\ host[Len(host)] = Amazonaws

\* the host of a registry root, in pieces
RootHost(root) ==
    IF Has(PiecesOf(root), "/") THEN SplitBefore(PiecesOf(root), "/") ELSE PiecesOf(root)
RecognisedRegistry(root) ==
    IsPrivateShape(RootHost(root)) \/ RootHost(root) = <<PublicHost>>

\* the steps of ensure_db_image_in_ecr written to dlog, by their first field
OpsDone == {dlog[i][1] : i \in DOMAIN dlog}
InEnsure == dpc \in {"prestop", "deltag", "build", "rebuild"}

\* C15: for a DB service whose image reference is on a host that is neither
\* wholly of the private registry shape nor public.ecr.aws,
\* ensure_db_image_in_ecr is a no-op: it logs in nowhere, creates no
\* repository, queries, deletes and pushes nothing, stops no container, and
\* the command goes on to its deployment; and for a release whose image is on
\* such a host the helm preflight returns exit code 0 and no extra arguments,
\* having created no pull secret and no probe pod.
HelmOps == {hlog[i][1] : i \in DOMAIN hlog}
ImageHost == IF Has(himage, "/") THEN SplitBefore(himage, "/") ELSE himage
HelmSkipsUnrecognised ==
    (hpc \notin {"idle", "preflight"}
        /\ ~IsPrivateShape(ImageHost) /\ ImageHost # <<PublicHost>>) =>
        /\ hpc = "done"
        /\ hrc = 0
        /\ ~hraised
        /\ hsets = <<>>
        /\ HelmOps = {}
EnsureSkipsUnrecognised ==
    (/\ facts # NoFacts
     /\ facts.fields.flavor = "db-mariadb"
     /\ facts.fields.name # NoValue
     /\ facts.fields.ver # NoValue
     /\ facts.fields.ecr # NoValue
     /\ ~RecognisedRegistry(facts.fields.ecr)) =>
        /\ OpsDone \cap {"login", "ensure_repo", "describe", "confirm", "prestop",
                         "delete_tag", "build", "push"} = {}
        /\ ~InEnsure
C15_UnrecognisedRefIsNoOp ==
    /\ EnsureSkipsUnrecognised
    /\ HelmSkipsUnrecognised

\* C16: ensure_db_image_in_ecr deletes a registry tag, or pushes over a tag
\* the registry holds, only after the operator confirmed the rebuild
\* (PLSR_AUTO_REBUILD set to a yes value, or yes typed at the prompt), also
\* when the lookup of the tag failed; and once the operator has declined it
\* stops, deletes and builds nothing.
OperatorConfirmed(e) ==
    /\ e[1] = "confirm"
    /\ \/ e[2] \in {"1", "true", "yes", "y", "Y"}
       \/ e[2] = NoValue /\ e[3] \in {"y", "Y", "yes"}
OperatorDeclined(e) == e[1] = "confirm" /\ ~OperatorConfirmed(e)
C16_RebuildOnlyWhenConfirmed ==
    /\ \A i \in DOMAIN dlog :
          (dlog[i] = <<"delete_tag", 0>> \/ dlog[i] = <<"push", TRUE>>) =>
              \E j \in 1..(i - 1) : OperatorConfirmed(dlog[j])
    /\ (\E j \in DOMAIN dlog : OperatorDeclined(dlog[j])) =>
          /\ ~InEnsure
          /\ OpsDone \cap {"prestop", "delete_tag", "build", "push"} = {}

\* C17: when a confirmed rebuild comes to delete the registry tag, no
\* container is left under the canonical name or under <name>-<env>, and the
\* data directory each of them had mounted is gone unless the allow-list
\* refused it.
PreStops == {i \in DOMAIN dlog : dlog[i][1] = "prestop"}
DataGone(insp) ==
    (insp.state # "absent" /\ insp.src # None /\ insp.src \in fs) =>
        \E r \in refused : r.path = insp.src
C17_StoppedBeforeRebuild ==
    (dpc = "deltag" /\ PreStops # {}) =>
        LET e == dlog[MaxOf(PreStops)]
        IN  /\ containers[e[2]].state = "absent"
            /\ containers[e[4]].state = "absent"
            /\ DataGone(e[3])
            /\ DataGone(e[5])

PortGaveUp ==
    /\ dport.used = 0
    /\ dpc = "done"
    /\ drc # RcOk
    /\ "run" \notin OpsDone
\* the port fallback, strict mode being on for the values StrictOn of
\* PLSR_STRICT_PORT
PortFallbackWhen(StrictOn) ==
    /\ (dport.set /\ ~dport.explicit /\ dport.desired \in dport.busy) =>
          LET free == {q \in (dport.desired + 1)..(dport.desired + 50) :
                          q \notin dport.busy}
          IN  IF dport.strict \in StrictOn THEN PortGaveUp
              ELSE IF free = {} THEN PortGaveUp
              ELSE /\ dport.used = MinOf(free)
                   /\ dport.reported
    /\ \A i \in DOMAIN dlog : dlog[i][1] = "run" => dlog[i][2] = dport.used

\* C20: when docker run finds its desired host port taken and was given no -p
\* mapping, then with PLSR_STRICT_PORT set to 1, true, yes or y it fails and
\* starts no container; otherwise it uses the lowest free port p with
\* desired < p <= desired + 50 and reports it, and fails, starting no
\* container, when that range has no free port.  The container it starts is
\* published on the port it settled on.
C20_PortFallback == PortFallbackWhen({"1", "true", "yes", "y"})

\* C20 as stated: the same with strict mode on whenever PLSR_STRICT_PORT is
\* set, whatever its value
C20_StrictWheneverSet == PortFallbackWhen({"0", "1", "true", "yes", "y", "false", "no"})

\* a docker run with PLSR_STRICT_PORT=0 that found ports desired .. desired + 49
\* taken has started its container on desired + 50, the last port of the range
C20_Witness ==
    /\ dport.set
    /\ ~dport.explicit
    /\ dport.strict = "0"
    /\ dport.busy = dport.desired..(dport.desired + 49)
    /\ dport.used = dport.desired + 50
    /\ dport.reported
    /\ <<"run", dport.desired + 50>> \in {dlog[i] : i \in DOMAIN dlog}

\* C21: docker run of a DB service resolves one host data directory, by the
\* precedence --data-dir, then the bind-mount source of the container it
\* found, then environments.<env>.data_dir, then ~/dev/plsr/local/db; the
\* directory it deletes (or refuses to delete) on redeploy is that directory,
\* and so is the directory mounted into the container it starts.
ResolvedDataDir ==
    IF dflags.data_host_dir # NoValue THEN PathOf(dflags.data_host_dir)
    ELSE IF dinsp.state # "absent" /\ dinsp.src # None THEN dinsp.src
    ELSE IF ConfiguredDataDir(denv) # NoValue THEN PathOf(ConfiguredDataDir(denv))
    ELSE DefaultLocalDbDir
C21_OneDataDirectory ==
    (/\ facts # NoFacts
     /\ facts.flavor = "db-mariadb"
     /\ dpc \in {"pull", "launch", "done"}
     /\ denv # ""
     /\ "prestop" \notin OpsDone) =>
        /\ \A e \in deleted \cup refused : e.path = ResolvedDataDir
        /\ "run" \in OpsDone => containers[dcname].src = ResolvedDataDir

\* C22: docker run and docker stop that find docker absent from PATH do
\* nothing more and exit with code 127.
C22_MissingToolExits127 ==
    "no_docker" \in OpsDone =>
        /\ dpc = "done"
        /\ drc = 127
        /\ OpsDone = {"no_docker"}

\* C24: for a DB service docker run and docker stop work on one container
\* name, whatever the environment and --name; and on a host that had no
\* container of the service, however many docker run and docker stop follow
\* one another over whatever environments, at most one container of the
\* service exists.
ServiceContainers == {n \in CNames : containers[n].state # "absent"}
At(op) == {i \in DOMAIN dlog : dlog[i][1] = op}
PastEnsure == dpc \in {"redeploy", "pull", "launch"} \/ "run" \in OpsDone
C25_EnsureStateMachine ==
    /\ \A op \in {"describe", "confirm", "prestop", "delete_tag", "build", "push"} :
          Cardinality(At(op)) <= 1
    /\ \A i \in At("describe") : ~dlog[i][2] =>
          /\ OpsDone \cap {"confirm", "prestop", "delete_tag"} = {}
          /\ \A b \in At("build") : ~dlog[b][2]
          /\ PastEnsure => At("build") # {} /\ At("push") # {}
    /\ \A p \in At("prestop") :
          \E c \in At("confirm") : c < p /\ OperatorConfirmed(dlog[c])
    /\ \A t \in At("delete_tag") : \E p \in At("prestop") : p < t
    /\ \A b \in At("build") : dlog[b][2] =>
          \E t \in At("delete_tag") : t < b /\ dlog[t][2] = 0
    /\ \A b \in At("build") : \A c \in At("confirm") : dlog[b][2]
    /\ \A q \in At("push") : \E b \in At("build") : b < q /\ dlog[b][3] = 0
    /\ \A t \in At("delete_tag") : dlog[t][2] # 0 =>
          /\ At("build") = {}
          /\ dpc = "done"
          /\ drc = dlog[t][2]

\* a confirmed rebuild has run to its end: stop, delete, build without
\* cache, push
C25_Witness ==
    /\ Len(dlog) >= 8
    /\ dlog[3] = <<"describe", TRUE>>
    /\ OperatorConfirmed(dlog[4])
    /\ dlog[5][1] = "prestop"
    /\ dlog[6] = <<"delete_tag", 0>>
    /\ dlog[7] = <<"build", TRUE, 0>>
    /\ dlog[8][1] = "push"

\* the host and the registry are as they were before the step
OutsideUntouched ==
    /\ containers' = containers
    /\ fs' = fs
    /\ ecrTags' = ecrTags
    /\ deleted' = deleted

\* C28: a step of docker run or docker stop given --dry-run removes, stops
\* and starts no container, creates and deletes no directory, and builds,
\* pushes and deletes no image; and the command, when it ends, returns 0.
C28_DryRunChangesNothing ==
    [][dflags'.dry_run =>
          /\ OutsideUntouched
          /\ dpc' = "done" => drc' = RcOk]_vars

\* C29: in a docker run for environment E that has entered the DB image
\* flow, the environment name the flow reads from PLSR_ENV is E, and the
\* stops before a rebuild were given E and the legacy name <name>-E.
C29_EnvReachesImageFlow ==
    /\ "login" \in OpsDone => NestedEnv = denv
    /\ \A i \in At("prestop") :
          /\ NestedEnv = denv
          /\ dlog[i][4] = SanitizeName(<<facts.fields.name, denv>>)

\* C30: the step in which the operator declines to redeploy a running
\* container ends docker run with 0 and removes no container, under the
\* service's name or the legacy name, deletes no data directory, builds,
\* pushes and pulls no image and starts no container.
C30_DeclineLeavesEverything ==
    [][(dpc = "idle" /\ "declined" \in {dlog'[i][1] : i \in DOMAIN dlog'}) =>
          /\ OutsideUntouched
          /\ dpc' = "done"
          /\ drc' = RcOk]_vars

(***************************************************************************)
(*                 PROPERTIES OF THE CLUSTER PREFLIGHT                     *)
(***************************************************************************)

Polls == {i \in DOMAIN hlog : hlog[i][1] = "poll"}
Deletes == {i \in DOMAIN hlog : hlog[i][1] = "delete"}
PolledOnce == hobs.seen /\ hobs.found /\ hobs.statuses

\* C18: the poll in which the first container status of the probe pod shows a
\* non-empty imageID ends the verifier with success, whatever the phase and
\* the readiness of the pod; the poll in which imageID is empty and the
\* waiting reason is ErrImagePull, ImagePullBackOff, RegistryUnavailable,
\* InvalidImageName, Unauthorized or Forbidden ends it with a failure there
\* and then, with no further poll; and the verifier reports success after no
\* other poll.
C18_PullVerificationOutcome ==
    /\ (PolledOnce /\ hobs.imageID # "") =>
          hpc = "done" /\ ~hraised /\ hrc = 0
    /\ (PolledOnce /\ hobs.imageID = ""
           /\ hobs.reason \in {"ErrImagePull", "ImagePullBackOff", "RegistryUnavailable",
                               "InvalidImageName", "Unauthorized", "Forbidden"}) =>
          hpc = "done" /\ ~hraised /\ hrc # 0
    /\ (hpc = "done" /\ ~hraised /\ hrc = 0 /\ Polls # {}) =>
          PolledOnce /\ hobs.imageID # ""

\* the third poll shows an imageID on a pod that is still pending and not
\* ready, and the verifier has returned success
C18_Witness ==
    /\ Cardinality(Polls) = 3
    /\ PolledOnce
    /\ hobs.imageID # ""
    /\ hobs.phase = "Pending"
    /\ ~hobs.ready
    /\ hobs.reason = "ContainerCreating"
    /\ hpc = "done"
    /\ hrc = 0

\* C19: a verifier that has come to write its pod manifest has, when it ends
\* (by success, a terminal pull failure, the timeout, a failed kubectl apply or
\* an exception), issued exactly one delete of the probe pod, as its last
\* cluster call; before it ends it has issued none, and no status poll
\* follows a delete.
C19_ProbePodDeletedOnce ==
    /\ Cardinality(Deletes) <= 1
    /\ \A i \in Deletes : i = Len(hlog) /\ hpc = "done"
    /\ ("tmpfile" \in HelmOps /\ hpc = "done") => Cardinality(Deletes) = 1

\* the verifier has polled until the deadline without a verdict and has then
\* deleted its pod
C19_Witness ==
    /\ hpc = "done"
    /\ hrc = RcPullFailed
    /\ Cardinality(Polls) >= 3
    /\ Verdict(hobs) = "again"
    /\ hnow >= hdeadline
    /\ hlog[Len(hlog)] = <<"delete">>
    /\ hlog[Len(hlog) - 1] = <<"poll">>

\* what the two retry loops have left behind
PingLoopGaveUp == mpc = "done" /\ ~pinged /\ mrc = RcNotReady
PollLoopTimedOut == hpc = "done" /\ ~hraised /\ Polls # {} /\ Verdict(hobs) = "again"

BoundedRetriesNow ==
    /\ mpc = "wait" => attempt < PingAttempts
    /\ (mpc \notin {"idle", "wait"} /\ ~pinged) =>
          /\ mpc = "done"
          /\ mrc # 0
          /\ evts = <<>>
          /\ ledger = ledger0
    /\ Polls # {} => hdeadline = Deadline(0, htimeout) /\ hdeadline >= MinPullTimeout
    /\ PollLoopTimedOut => hrc # 0 /\ hnow >= hdeadline

BoundedRetriesStep ==
    /\ (attempt' # attempt \/ pinged' # pinged) =>
          mpc \in {"idle", "done"} \/ (mpc = "wait" /\ attempt < PingAttempts)
    /\ (dbCreated' # dbCreated \/ tableCreated' # tableCreated
           \/ execCount' # execCount \/ ledger' # ledger) => pinged
    /\ Cardinality(Polls') > Cardinality(Polls) => hnow < hdeadline

\* C26: both retry loops are bounded.  The readiness wait of migrate issues
\* a ping only while fewer than 60 have been issued, and an invocation in
\* which no ping was answered ends with a non-zero code, having read and
\* written no ledger row, created neither the database and user nor the
\* ledger table and executed no migration.  The pull verification of the
\* preflight has the deadline max(10, timeout) seconds after its start,
\* issues a status poll only while the clock is before the deadline, and
\* when its last poll shows neither an imageID nor a terminal reason it has
\* run to the deadline and returned failure.
C26_BoundedRetries == []BoundedRetriesNow /\ [][BoundedRetriesStep]_vars

\* migrate has given up after 60 unanswered pings, the database untouched
C26_Witness ==
    /\ PingLoopGaveUp
    /\ runs = 1
    /\ ~dbCreated
    /\ ~tableCreated
    /\ \A n \in FileNames : execCount[n] = 0

\* the pull verification has polled up to a deadline of ten seconds, the
\* floor under a configured timeout of four, and has failed
C26_WitnessPoll ==
    /\ PollLoopTimedOut
    /\ htimeout = "4"
    /\ hdeadline = MinPullTimeout
    /\ hrc = RcPullFailed

\* the steps of a release in hlog, and those that failed
HAt(op) == {i \in DOMAIN hlog : hlog[i][1] = op}
ReleaseSteps == {"namespace", "root_secret", "adopt", "sts", "login", "secret",
                 "tmpfile", "apply", "poll", "upgrade"}
StepFailed(i) ==
    \/ hlog[i][1] \in {"namespace", "root_secret", "sts", "secret", "apply"}
          /\ hlog[i][2] # 0
    \/ hlog[i][1] = "login" /\ hlog[i][2] # "token"
    \/ hlog[i][1] = "preflight" /\ hlog[i][2] # 0
Precedes(a, b) == \A j \in HAt(b) : \E i \in HAt(a) : i < j

\* C27: helm upgrade --install is run only straight after the preflight
\* returned 0; for a private registry the AWS identity check precedes the
\* fetch of the login token, that the apply of the pull secret, and that the
\* probe pod; and once the namespace creation, the apply of the root-password
\* secret, the identity check, the token fetch, the apply of the pull secret
\* or the probe has failed, no later step is taken and release returns a
\* non-zero code.
C27_ReleaseGatedOnPreflight ==
    /\ \A i \in HAt("upgrade") : i > 1 /\ hlog[i - 1] = <<"preflight", 0>>
    /\ Precedes("sts", "login")
    /\ Precedes("login", "secret")
    /\ (ParseEcrImageRef(himage).found /\ ParseEcrImageRef(himage).private) =>
          Precedes("secret", "apply")
    /\ \A i \in DOMAIN hlog :
          StepFailed(i) =>
              /\ \A j \in DOMAIN hlog : j > i => hlog[j][1] \notin ReleaseSteps
              /\ hpc = "returned" => hrc # 0

(***************************************************************************)
(*                 PROPERTIES OF parse_ecr_image_ref                       *)
(***************************************************************************)

\* the host of a reference host/path and its path
RefHost == IF Has(pref, "/") THEN SplitBefore(pref, "/") ELSE pref
RefPath == IF Has(pref, "/") THEN SplitAfter(pref, "/") ELSE <<>>

\* C14: parse_ecr_image_ref answers private only for a host that is wholly of
\* the private shape, public only for the host public.ecr.aws, and nothing
\* for any other host; for a reference without a digest the repository and
\* the tag it returns are the path before and after its last colon, the tag
\* being latest when the path has no colon.
C14_ParseClassifiesByExactHost ==
    pout.done =>
        /\ (pout.res.found /\ pout.res.private) => IsPrivateShape(RefHost)
        /\ (pout.res.found /\ ~pout.res.private) => RefHost = <<PublicHost>>
        /\ (pout.res.found /\ ~Has(pref, "@")) =>
               /\ pout.res.repository =
                      (IF Has(RefPath, ":") THEN RSplitBefore(RefPath, ":") ELSE RefPath)
               /\ pout.res.tag =
                      (IF Has(RefPath, ":") THEN RSplitAfter(RefPath, ":") ELSE <<"latest">>)

====
